---- MODULE Spec2Model ----
(***************************************************************************)
(* The transactional inventory engine of the stock synchroniser:           *)
(* apply_delta / bulk_apply_deltas (app/services/inventory.py) running on  *)
(* SQLAlchemy sessions over a PostgreSQL ledger (app/database.py,          *)
(* app/models.py).                                                         *)
(*                                                                         *)
(* The ledger is three tables of committed rows.  Every request handler    *)
(* owns one session: its open transaction (rows written by a flush and not *)
(* yet committed), the row locks it holds, and the Stock objects it has    *)
(* modified and not yet flushed.  The identity map of a session refers to  *)
(* its objects weakly: the code keeps no reference to an object between    *)
(* two statements, so only the objects with unflushed changes stay in it,  *)
(* and every other get or SELECT reads the row again.                      *)
(* session.rollback() ends the whole transaction and discards the          *)
(* unflushed changes.  Each await of the code is one step of a handler.    *)
(*                                                                         *)
(* A webhook handler (app/routers/webhooks.py) enqueues a propagation job  *)
(* for every new result and then get_db commits.  The propagation worker   *)
(* (app/services/propagation.py) is one task: it takes the jobs of the     *)
(* bounded queue one by one and writes each to every configured site with  *)
(* bounded retries, recording a PropagationFailure when they are used up.  *)
(***************************************************************************)
EXTENDS Integers, Sequences, FiniteSets, TLC

VARIABLES
    handlers,     \* the request handlers that run (fixed by Init)
    univ,         \* the inputs requests are drawn from (fixed by Init)
    seed,         \* the Stock rows seeded before the first request (fixed by Init)
    seedProducts, \* the Product rows seeded with them (fixed by Init)
    settings,     \* get_settings(): loaded once at startup (fixed by Init)
    delivery,     \* history: the last webhook delivered and the answer it got
                  \* at the door (0: it was passed on to bulk_apply_deltas)
    shutdown,     \* _shutdown: where the host is, and the jobs it found unfinished
    sites_table,  \* rows of table sites (the admin UI's sites)
    site_sku_map, \* rows of table site_sku_map
    refresh_result, \* the last MappingRefreshResult returned (none: NoRefresh)
    refresh,      \* refresh_site_mappings: where the running call is, its inputs,
                  \* its locals and what its session has written and not committed
    site_changes, \* history: how many times the admin UI has changed table sites
    products,     \* committed rows of table products
    stock,        \* committed rows of table stock
    events,       \* committed rows of table inventory_events
    txProducts,   \* per handler: Product rows inserted, not yet committed
    txStock,      \* per handler: Stock rows inserted or updated, not yet committed
    txEvents,     \* per handler: InventoryEvent rows inserted, not yet committed
    locks,        \* per handler: skus of the Stock rows it holds FOR UPDATE
    modified,     \* per handler: Stock objects modified and not yet flushed
    stock_row,    \* per handler: the Stock object apply_delta selected (none: {})
    pc,           \* per handler: the await it is at
    req,          \* per handler: site_id, order_id, event_type of its request
    cur,          \* per handler: line_item_id, sku, delta of the running apply_delta
    results,      \* per handler: the list bulk_apply_deltas has built so far
    callLog,      \* history: every apply_delta call that returned, in order, with
                  \* its arguments, its result, and whether another handler was
                  \* inside apply_delta for the same sku when it returned
    line_items,   \* per handler: the line items of its payload handled so far
    answered,     \* history: the idempotency keys of the line items of each
                  \* request answered 204, in the order of the answers
    queue,        \* propagation._queue: the jobs waiting, oldest first
    mapping,      \* the primary keys <<site_id, sku>> of table site_sku_map
    failures,     \* rows of table propagation_failures
    remote,       \* per site and sku: the stock_quantity the storefront holds
    job,          \* the job the worker is handling (none: NoJob)
    wpc,          \* the await the worker is at
    site,         \* _handle_job: index of the site of the outer loop
    attempt,      \* _handle_job: attempt of the inner loop
    success,      \* _handle_job: success
    last_error,   \* _handle_job: last_error
    accepted,     \* history: the jobs put_nowait accepted, in order
    dropped,      \* history: how many jobs enqueue has dropped
    taken,        \* history: how many jobs the worker has taken from the queue
    writes,       \* history: the storefront writes issued for the job at the site
    sleeps,       \* history: the backoff sleeps made for the job at the site
    outcomes,     \* history: how the job ended at each site handled so far
    done,         \* history: the jobs (by their number) _queue.task_done() was
                  \* called for, in order, and whether _handle_job had raised
    everActive,   \* history: the sites active in table sites at some moment
                  \* since the worker took its job
    alwaysActive  \* history: the sites active in table sites at every moment
                  \* since the worker took its job

\* what Init fixes and no step changes
fixed == <<handlers, univ, seed, seedProducts, settings>>

\* what neither bulk_apply_deltas nor the propagation worker touches: the door of
\* the webhook routes, the host's shutdown and the admin's tables
service ==
    <<delivery, shutdown, sites_table, site_sku_map, refresh_result, refresh,
      site_changes>>

\* the webhook intake: what the handlers add to the engine's state
intake == <<line_items, answered>>

\* the propagation worker, its tables and the storefronts
propagation ==
    <<mapping, failures, remote, job, wpc, site, attempt, success, last_error,
      accepted, dropped, taken, writes, sleeps, outcomes, done, everActive,
      alwaysActive>>

vars ==
    <<fixed, service, products, stock, events, txProducts, txStock, txEvents, locks,
      modified, stock_row, pc, req, cur, results, callLog, intake, queue,
      propagation>>

\* ---------------------------------------------------------------- bounds

\* apply_delta calls started in one behaviour, over all handlers
MaxCalls == 3
\* the same when two handlers run concurrently
MaxConcCalls == 2
\* largest qty of a line item
MaxQty == 2
\* the same when two handlers run concurrently
MaxConcQty == 1
\* largest seeded on_hand
MaxStart == 1
\* enqueue calls, and jobs the worker takes, in one behaviour of the worker
MaxJobs == 2

\* ---------------------------------------------------------------- inputs

Handlers == {"h1", "h2"}
SKUs == {"A", "U"}
Sites == {"s1", "s2"}
Orders == {"o1", "o2"}
LineItems == {"l1", "l2"}
EventTypes == {"order_paid", "refund", "cancel"}

NoReq == [site_id |-> "-", order_id |-> "-", event_type |-> "-"]
NoCall == [line_item_id |-> "-", sku |-> "-", delta |-> 0]
NoJob == [sku |-> "-", stock_quantity |-> 0]
NoDelivery ==
    [n |-> 0, event_type |-> "-", status |-> "-", credentials |-> "-", code |-> 0]
NoRefresh == [site_id |-> "-", inserted |-> 0, errors |-> 0]

\* a session that has written nothing since its last commit
EmptySession == [products |-> {}, stock |-> {}, site_sku_map |-> {}]

\* no record is waiting for its flush
NoRecord ==
    [id |-> 0, remote |-> "-", sku |-> "-", name |-> "-", product_id |-> 0,
     variation_id |-> 0]

\* no call of refresh_site_mappings is running and none has run
NoRun ==
    [pc |-> "idle", n |-> 0, site_id |-> "-", catalogue |-> 0, fail_at |-> 0,
     variations_fail |-> FALSE, upsert_fail |-> 0, page |-> 0, fetched |-> <<>>,
     next |-> 0, product |-> [id |-> 0, type |-> "-", sku |-> "-", name |-> "-"],
     variations |-> <<>>, pending |-> NoRecord, ret |-> "-", inserted |-> 0,
     errors |-> 0, upserted |-> <<>>, rolled_back |-> FALSE,
     session |-> EmptySession]

\* settings.sites, in the order _handle_job walks them
ConfiguredSites == <<"s1", "s2">>

\* the site_ids the admin UI can hold: the configured ones and one it adds
AdminSites == {"s1", "s2", "s3"}

\* _seed_sites_from_env: the sites of the environment, all active
SeededSites ==
    {[site_id |-> ConfiguredSites[i], is_active |-> TRUE] : i \in DOMAIN ConfiguredSites}

\* a row of table site_sku_map (variation_id 0: none)
MapRow(site_id, sku, product_id, variation_id) ==
    [site_id |-> site_id, sku |-> sku, product_id |-> product_id,
     variation_id |-> variation_id]

\* settings.propagation_max_retries: the default
PropagationMaxRetries == 5

\* the settings of shared-secret mode: a secret, no bearer token, and the default
\* decrement_status and propagation_max_retries
HmacSettings ==
    [webhook_shared_secret |-> "secret", webhook_bearer_token |-> "",
     decrement_status |-> "processing",
     propagation_max_retries |-> PropagationMaxRetries]

\* ---------------------------------------------------------------- rows

HasRow(table, sku) == \E r \in table : r.sku = sku

Without(table, sku) == {r \in table : r.sku # sku}

\* the rows of `written` over those of `base`, by primary key
Overlay(base, written) ==
    {r \in base : ~HasRow(written, r.sku)} \cup written

\* mutant of NewProduct: the lazily created product allows backorders
NewProduct_BackordersOn(sku) == [sku |-> sku, name |-> sku, backorders |-> TRUE]

\* Product(sku=sku, name=sku): lead_time_days, reorder_point and backorders
\* take their column defaults
NewProduct(sku) == [sku |-> sku, name |-> sku, backorders |-> FALSE]

NewStock(sku) == [sku |-> sku, on_hand |-> 0, reserved |-> 0]

\* uq_event_idempotency
Key(e) == <<e.site_id, e.order_id, e.line_item_id, e.event_type>>

NewEvent(r, c) ==
    [site_id |-> r.site_id, order_id |-> r.order_id, line_item_id |-> c.line_item_id,
     sku |-> c.sku, delta |-> c.delta, event_type |-> r.event_type]

\* what a statement of handler h reads (READ COMMITTED plus its own writes)
ViewProducts(h) == products \cup txProducts[h]

ViewStock(h) == Overlay(stock, txStock[h])

ViewEvents(h) == events \cup txEvents[h]

\* the Stock objects a get or a SELECT of h's session returns: the rows it reads,
\* but a modified object of the session as it is
SessionStock(h) == Overlay(ViewStock(h), modified[h])

\* ---------------------------------------------------------------- engine arithmetic

\* mutant of Sign: every event decrements
Sign_AlwaysMinus(event_type) == -1

Sign(event_type) == IF event_type = "order_paid" THEN -1 ELSE 1

\* mutants of ClampFloor: the flag read the wrong way round, a floor that ignores
\* the flag, no floor at all
ClampFloor_FlagInverted(new_on_hand, backorders_allowed) ==
    IF new_on_hand < 0 /\ backorders_allowed THEN 0 ELSE new_on_hand

ClampFloor_AlwaysClamps(new_on_hand, backorders_allowed) ==
    IF new_on_hand < 0 THEN 0 ELSE new_on_hand

ClampFloor_NoClamp(new_on_hand, backorders_allowed) == new_on_hand

ClampFloor(new_on_hand, backorders_allowed) ==
    IF new_on_hand < 0 /\ ~backorders_allowed THEN 0 ELSE new_on_hand

\* ---------------------------------------------------------------- session

\* mutant: a flush that leaves the modified objects out
Flushed_DropsModified(h) == txStock[h]

\* the uncommitted Stock rows of h once its modified objects are flushed (UPDATE)
Flushed(h) == Overlay(txStock[h], modified[h])

\* session.get(Model, sku), scalar_one_or_none(): the object, or none ({})
Get(table, sku) == {r \in table : r.sku = sku}

\* INSERT waits for another open transaction that inserted the same primary key
ProductInsertBlocked(h, sku) ==
    \E g \in handlers \ {h} : HasRow(txProducts[g], sku)

StockInsertBlocked(h, sku) ==
    \E g \in handlers \ {h} : HasRow(txStock[g], sku) /\ ~HasRow(stock, sku)

\* INSERT waits for another open transaction that inserted the same unique key
EventInsertBlocked(h, e) ==
    \E g \in handlers \ {h} : \E x \in txEvents[g] : Key(x) = Key(e)

\* the unique constraint uq_event_idempotency fails the INSERT
UniqueViolation(h, e) ==
    \E x \in ViewEvents(h) : Key(x) = Key(e)

\* mutant of RowLockBlocked: the SELECT takes no lock (the unlocked fallback)
RowLockBlocked_NoLock(h, sku) == FALSE

\* SELECT ... FOR UPDATE waits for another transaction holding the row
RowLockBlocked(h, sku) ==
    \E g \in handlers \ {h} : sku \in locks[g]

\* session.rollback(): the whole transaction is undone, its locks released, every
\* object of the session expired or expunged (its unflushed changes are lost)
Rollback(h) ==
    /\ txProducts' = [txProducts EXCEPT ![h] = {}]
    /\ txStock' = [txStock EXCEPT ![h] = {}]
    /\ txEvents' = [txEvents EXCEPT ![h] = {}]
    /\ locks' = [locks EXCEPT ![h] = {}]
    /\ modified' = [modified EXCEPT ![h] = {}]

InCall ==
    {"ensure_product", "ensure_product_flush", "ensure_stock", "ensure_stock_flush",
     "insert_event", "duplicate", "lock_stock", "update_on_hand"}

CallsStarted ==
    Len(callLog) + Cardinality({h \in handlers : pc[h] \in InCall})

LogEntry(h, was_new, on_hand) ==
    [site_id |-> req[h].site_id, order_id |-> req[h].order_id,
     line_item_id |-> cur[h].line_item_id, event_type |-> req[h].event_type,
     sku |-> cur[h].sku, delta |-> cur[h].delta,
     was_new |-> was_new, on_hand |-> on_hand,
     overlap |-> \E g \in handlers \ {h} : pc[g] \in InCall /\ cur[g].sku = cur[h].sku]

\* apply_delta returns (was_new, on_hand) to bulk_apply_deltas, which appends
\* (item.sku, was_new, on_hand) to its results
Return(h, was_new, on_hand) ==
    /\ results' = [results EXCEPT ![h] =
          Append(@, [sku |-> cur[h].sku, was_new |-> was_new, on_hand |-> on_hand])]
    /\ callLog' = Append(callLog, LogEntry(h, was_new, on_hand))
    /\ cur' = [cur EXCEPT ![h] = NoCall]
    /\ pc' = [pc EXCEPT ![h] = "bulk"]

\* ---------------------------------------------------------------- actions

\* a webhook handler gets its session (get_db) and calls bulk_apply_deltas
ReceiveWebhook(h) ==
    /\ pc[h] = "idle"
    /\ CallsStarted < univ.calls
    /\ \E k \in univ.keys :
          req' = [req EXCEPT ![h] =
                    [site_id |-> k[1], order_id |-> k[2], event_type |-> k[4]]]
    /\ pc' = [pc EXCEPT ![h] = "bulk"]
    /\ UNCHANGED <<fixed, service, products, stock, events, txProducts, txStock,
                   txEvents, locks, modified, stock_row, cur, results, callLog>>
    /\ UNCHANGED <<intake, queue, propagation>>

\* bulk_apply_deltas: the next line item, delta = sign * qty; apply_delta is called
BulkNextItem(h) ==
    /\ pc[h] = "bulk"
    /\ CallsStarted < univ.calls
    /\ \E li \in LineItems, sku \in univ.skus, qty \in 1..univ.qty :
          /\ <<req[h].site_id, req[h].order_id, li, req[h].event_type>> \in univ.keys
          /\ cur' = [cur EXCEPT ![h] =
                       [line_item_id |-> li, sku |-> sku,
                        delta |-> Sign(req[h].event_type) * qty]]
          /\ line_items' = [line_items EXCEPT ![h] =
                       Append(@, [line_item_id |-> li, sku |-> sku, qty |-> qty])]
    /\ pc' = [pc EXCEPT ![h] = "ensure_product"]
    /\ UNCHANGED <<fixed, service, products, stock, events, txProducts, txStock,
                   txEvents, locks, modified, stock_row, req, results, callLog>>
    /\ UNCHANGED <<answered, queue, propagation>>

\* _ensure_product_and_stock: session.get(Product, sku)
EnsureProductGet(h) ==
    /\ pc[h] = "ensure_product"
    /\ pc' = [pc EXCEPT ![h] =
                IF Get(ViewProducts(h), cur[h].sku) # {}
                THEN "ensure_stock" ELSE "ensure_product_flush"]
    /\ UNCHANGED <<fixed, service, products, stock, events, txProducts, txStock,
                   txEvents, locks, modified, stock_row, req, cur, results, callLog>>
    /\ UNCHANGED <<intake, queue, propagation>>

\* mutant of EnsureProductFlush: the IntegrityError of the losing INSERT is not
\* caught; it leaves the handler, and get_db rolls the transaction back
EnsureProductFlush_Uncaught(h) ==
    /\ pc[h] = "ensure_product_flush"
    /\ ~ProductInsertBlocked(h, cur[h].sku)
    /\ IF HasRow(products, cur[h].sku)
       THEN /\ Rollback(h)
            /\ pc' = [pc EXCEPT ![h] = "idle"]
            /\ req' = [req EXCEPT ![h] = NoReq]
            /\ cur' = [cur EXCEPT ![h] = NoCall]
            /\ results' = [results EXCEPT ![h] = <<>>]
            /\ line_items' = [line_items EXCEPT ![h] = <<>>]
       ELSE /\ txProducts' = [txProducts EXCEPT ![h] = @ \cup {NewProduct(cur[h].sku)}]
            /\ txStock' = [txStock EXCEPT ![h] = Flushed(h)]
            /\ modified' = [modified EXCEPT ![h] = {}]
            /\ pc' = [pc EXCEPT ![h] = "ensure_stock"]
            /\ UNCHANGED <<txEvents, locks, req, cur, results, line_items>>
    /\ UNCHANGED <<fixed, service, products, stock, events, stock_row, callLog>>
    /\ UNCHANGED <<answered, queue, propagation>>

\* _ensure_product_and_stock: session.add(Product(...)); flush; on IntegrityError
\* rollback and return
EnsureProductFlush(h) ==
    /\ pc[h] = "ensure_product_flush"
    /\ ~ProductInsertBlocked(h, cur[h].sku)
    /\ IF HasRow(products, cur[h].sku)
       THEN /\ Rollback(h)
            /\ pc' = [pc EXCEPT ![h] = "insert_event"]
       ELSE /\ txProducts' = [txProducts EXCEPT ![h] = @ \cup {NewProduct(cur[h].sku)}]
            /\ txStock' = [txStock EXCEPT ![h] = Flushed(h)]
            /\ modified' = [modified EXCEPT ![h] = {}]
            /\ pc' = [pc EXCEPT ![h] = "ensure_stock"]
            /\ UNCHANGED <<txEvents, locks>>
    /\ UNCHANGED <<fixed, service, products, stock, events, stock_row, req, cur,
                   results, callLog>>
    /\ UNCHANGED <<intake, queue, propagation>>

\* _ensure_product_and_stock: session.get(Stock, sku)
EnsureStockGet(h) ==
    /\ pc[h] = "ensure_stock"
    /\ pc' = [pc EXCEPT ![h] =
                IF Get(SessionStock(h), cur[h].sku) # {}
                THEN "insert_event" ELSE "ensure_stock_flush"]
    /\ UNCHANGED <<fixed, service, products, stock, events, txProducts, txStock,
                   txEvents, locks, modified, stock_row, req, cur, results, callLog>>
    /\ UNCHANGED <<intake, queue, propagation>>

\* _ensure_product_and_stock: session.add(Stock(...)); flush; on IntegrityError
\* rollback
EnsureStockFlush(h) ==
    /\ pc[h] = "ensure_stock_flush"
    /\ ~StockInsertBlocked(h, cur[h].sku)
    /\ IF HasRow(stock, cur[h].sku)
       THEN Rollback(h)
       ELSE /\ txStock' = [txStock EXCEPT ![h] = Flushed(h) \cup {NewStock(cur[h].sku)}]
            /\ modified' = [modified EXCEPT ![h] = {}]
            /\ UNCHANGED <<txProducts, txEvents, locks>>
    /\ pc' = [pc EXCEPT ![h] = "insert_event"]
    /\ UNCHANGED <<fixed, service, products, stock, events, stock_row, req, cur,
                   results, callLog>>
    /\ UNCHANGED <<intake, queue, propagation>>

\* apply_delta: session.add(event); flush; on IntegrityError session.rollback()
InsertEvent(h) ==
    /\ pc[h] = "insert_event"
    /\ ~EventInsertBlocked(h, NewEvent(req[h], cur[h]))
    /\ IF UniqueViolation(h, NewEvent(req[h], cur[h]))
       THEN /\ Rollback(h)
            /\ pc' = [pc EXCEPT ![h] = "duplicate"]
       ELSE /\ txEvents' = [txEvents EXCEPT ![h] = @ \cup {NewEvent(req[h], cur[h])}]
            /\ txStock' = [txStock EXCEPT ![h] = Flushed(h)]
            /\ modified' = [modified EXCEPT ![h] = {}]
            /\ pc' = [pc EXCEPT ![h] = "lock_stock"]
            /\ UNCHANGED <<txProducts, locks>>
    /\ UNCHANGED <<fixed, service, products, stock, events, stock_row, req, cur,
                   results, callLog>>
    /\ UNCHANGED <<intake, queue, propagation>>

\* apply_delta, the duplicate branch: session.get(Stock, sku); return (False, current)
DuplicateReturn(h) ==
    /\ pc[h] = "duplicate"
    /\ LET row == Get(SessionStock(h), cur[h].sku)
           current == IF row = {} THEN 0 ELSE (CHOOSE o \in row : TRUE).on_hand
       IN  Return(h, FALSE, current)
    /\ UNCHANGED <<fixed, service, products, stock, events, txProducts, txStock,
                   txEvents, locks, modified, stock_row, req>>
    /\ UNCHANGED <<intake, queue, propagation>>

\* apply_delta: select(Stock).where(Stock.sku == sku).with_for_update()
LockStockRow(h) ==
    /\ pc[h] = "lock_stock"
    /\ ~RowLockBlocked(h, cur[h].sku)
    /\ locks' = [locks EXCEPT ![h] =
                   IF HasRow(ViewStock(h), cur[h].sku) THEN @ \cup {cur[h].sku} ELSE @]
    /\ stock_row' = [stock_row EXCEPT ![h] = Get(SessionStock(h), cur[h].sku)]
    /\ pc' = [pc EXCEPT ![h] = "update_on_hand"]
    /\ UNCHANGED <<fixed, service, products, stock, events, txProducts, txStock,
                   txEvents, modified, req, cur, results, callLog>>
    /\ UNCHANGED <<intake, queue, propagation>>

\* apply_delta: the Stock row is created when the SELECT found none; the product's
\* backorders flag is read; new_on_hand = on_hand + delta, clamped at the floor;
\* stock_row.on_hand = new_on_hand (flushed by a later flush or by the commit);
\* return (True, new_on_hand).  An IntegrityError of the Stock INSERT is not
\* caught: it leaves the handler before anything is enqueued, and get_db rolls
\* the transaction back.
UpdateOnHand(h) ==
    /\ pc[h] = "update_on_hand"
    /\ stock_row[h] # {} \/ ~StockInsertBlocked(h, cur[h].sku)
    /\ IF stock_row[h] = {} /\ HasRow(stock, cur[h].sku)
       THEN /\ Rollback(h)
            /\ pc' = [pc EXCEPT ![h] = "idle"]
            /\ req' = [req EXCEPT ![h] = NoReq]
            /\ cur' = [cur EXCEPT ![h] = NoCall]
            /\ results' = [results EXCEPT ![h] = <<>>]
            /\ line_items' = [line_items EXCEPT ![h] = <<>>]
            /\ UNCHANGED callLog
       ELSE LET created == stock_row[h] = {}
                row == IF created THEN NewStock(cur[h].sku)
                       ELSE CHOOSE o \in stock_row[h] : TRUE
                product == Get(ViewProducts(h), cur[h].sku)
                backorders_allowed ==
                    IF product = {} THEN FALSE
                    ELSE (CHOOSE p \in product : TRUE).backorders
                new_on_hand ==
                    ClampFloor(row.on_hand + cur[h].delta, backorders_allowed)
            IN  /\ txStock' = [txStock EXCEPT ![h] =
                      IF created THEN Flushed(h) \cup {row} ELSE @]
                /\ modified' = [modified EXCEPT ![h] =
                      Without(IF created THEN {} ELSE @, cur[h].sku)
                         \cup {[row EXCEPT !.on_hand = new_on_hand]}]
                /\ Return(h, TRUE, new_on_hand)
                /\ UNCHANGED <<txProducts, txEvents, locks, req, line_items>>
    /\ stock_row' = [stock_row EXCEPT ![h] = {}]
    /\ UNCHANGED <<fixed, service, products, stock, events, answered, queue, propagation>>

\* the job of a result tuple
Job(r) == [sku |-> r.sku, stock_quantity |-> r.on_hand]

\* mutant of NewJobs: a job for every result, new or not
NewJobs_EveryResult(rs) == [i \in DOMAIN rs |-> Job(rs[i])]

\* for sku, was_new, new_on_hand in results: if was_new: the job to enqueue
NewJobs(rs) ==
    LET new == SelectSeq(rs, LAMBDA r : r.was_new)
    IN  [i \in DOMAIN new |-> Job(new[i])]

\* asyncio.Queue(maxsize=10_000)
QueueMaxSize == 10000

\* mutants of PutNowait: the job goes to the front of the queue; the queue takes
\* the job whatever its size
PutNowait_Front(q, j) == IF Len(q) >= QueueMaxSize THEN q ELSE <<j>> \o q

PutNowait_Unbounded(q, j) == Append(q, j)

\* enqueue: _queue.put_nowait(job); on QueueFull the job is dropped
PutNowait(q, j) == IF Len(q) >= QueueMaxSize THEN q ELSE Append(q, j)

RECURSIVE PutAll(_, _)
PutAll(q, jobs) ==
    IF jobs = <<>> THEN q ELSE PutAll(PutNowait(q, Head(jobs)), Tail(jobs))

\* order_paid / refund_or_cancel after bulk_apply_deltas: propagation.enqueue for
\* every new result; the loop has no await, so it is one step.  The handler then
\* returns to get_db.
EnqueueResults(h) ==
    /\ pc[h] = "bulk"
    /\ Len(results[h]) > 0
    /\ queue' = PutAll(queue, NewJobs(results[h]))
    /\ accepted' = accepted \o SubSeq(queue', Len(queue) + 1, Len(queue'))
    /\ dropped' = dropped + Len(NewJobs(results[h])) - (Len(queue') - Len(queue))
    /\ pc' = [pc EXCEPT ![h] = "commit"]
    /\ UNCHANGED <<fixed, service, products, stock, events, txProducts, txStock, txEvents,
                   locks, modified, stock_row, req, cur, results, callLog, intake>>
    /\ UNCHANGED <<mapping, failures, remote, job, wpc, site, attempt, success,
                   last_error, taken, writes, sleeps, outcomes, done, everActive,
                   alwaysActive>>

\* the idempotency keys of the line items of h's request
RequestKeys(h) ==
    {<<req[h].site_id, req[h].order_id, line_items[h][i].line_item_id,
       req[h].event_type>> : i \in DOMAIN line_items[h]}

\* get_db: the handler has returned; session.commit() flushes what is modified and
\* commits the transaction, the session is closed and the request is answered 204
Commit(h) ==
    /\ pc[h] = "commit"
    /\ products' = products \cup txProducts[h]
    /\ stock' = Overlay(stock, Flushed(h))
    /\ events' = events \cup txEvents[h]
    /\ Rollback(h)
    /\ pc' = [pc EXCEPT ![h] = "idle"]
    /\ req' = [req EXCEPT ![h] = NoReq]
    /\ results' = [results EXCEPT ![h] = <<>>]
    /\ line_items' = [line_items EXCEPT ![h] = <<>>]
    /\ answered' = Append(answered, RequestKeys(h))
    /\ UNCHANGED <<fixed, service, stock_row, cur, callLog, queue, propagation>>

\* ---------------------------------------------------------------- specifications

AllKeys == Sites \X Orders \X LineItems \X EventTypes

BaseKey == <<"s1", "o1", "l1", "order_paid">>

\* the keys that differ from BaseKey in exactly one component
Variants ==
    {k \in AllKeys : Cardinality({i \in 1..4 : k[i] # BaseKey[i]}) = 1}

\* the ledger is seeded with SKU "A"; SKU "U" is unknown to it
InitLedger ==
    /\ \E b \in BOOLEAN :
          products = {[sku |-> "A", name |-> "Seeded", backorders |-> b]}
    /\ \E n \in 0..MaxStart :
          stock = {[sku |-> "A", on_hand |-> n, reserved |-> 0]}
    /\ seed = stock
    /\ seedProducts = products
    /\ events = {}
    /\ txProducts = [h \in Handlers |-> {}]
    /\ txStock = [h \in Handlers |-> {}]
    /\ txEvents = [h \in Handlers |-> {}]
    /\ locks = [h \in Handlers |-> {}]
    /\ modified = [h \in Handlers |-> {}]
    /\ stock_row = [h \in Handlers |-> {}]
    /\ pc = [h \in Handlers |-> "idle"]
    /\ req = [h \in Handlers |-> NoReq]
    /\ cur = [h \in Handlers |-> NoCall]
    /\ results = [h \in Handlers |-> <<>>]
    /\ callLog = <<>>
    /\ line_items = [h \in Handlers |-> <<>>]
    /\ answered = <<>>
    /\ delivery = NoDelivery
    /\ refresh_result = NoRefresh
    /\ refresh = NoRun

\* the worker waits for its first job: nothing has been propagated
InitWorkerTables(map_rows) ==
    /\ failures = {}
    /\ remote = {}
    /\ job = NoJob
    /\ wpc = "get"
    /\ site = 1
    /\ attempt = 1
    /\ success = FALSE
    /\ last_error = ""
    /\ dropped = 0
    /\ taken = 0
    /\ writes = <<>>
    /\ sleeps = <<>>
    /\ outcomes = <<>>
    /\ done = <<>>
    /\ shutdown = [state |-> "serving", unfinished |-> 0]
    /\ sites_table = SeededSites
    /\ site_changes = 0
    /\ everActive = {}
    /\ alwaysActive = {}
    /\ site_sku_map = map_rows

\* every mapped pair is a simple product
InitWorker == InitWorkerTables({MapRow(k[1], k[2], 1, 0) : k \in mapping})

\* the webhook intake alone: the queue is empty and no site is mapped
InitPropagation ==
    /\ queue = <<>>
    /\ accepted = <<>>
    /\ mapping = {}
    /\ InitWorker

\* one handler at a time: requests are served one after the other
Init ==
    /\ handlers = {"h1"}
    /\ settings = HmacSettings
    /\ \E k \in Variants, sku \in SKUs :
          univ = [keys |-> {BaseKey, k}, skus |-> {sku}, calls |-> MaxCalls,
                  qty |-> MaxQty]
    /\ InitLedger
    /\ InitPropagation

\* two handlers run concurrently
InitConc ==
    /\ handlers = Handlers
    /\ settings = HmacSettings
    /\ \E k \in Variants, sku \in SKUs :
          univ = [keys |-> {BaseKey, k}, skus |-> {sku}, calls |-> MaxConcCalls,
                  qty |-> MaxConcQty]
    /\ InitLedger
    /\ InitPropagation

Next ==
    \/ \E h \in handlers : ReceiveWebhook(h)
    \/ \E h \in handlers : BulkNextItem(h)
    \/ \E h \in handlers : EnsureProductGet(h)
    \/ \E h \in handlers : EnsureProductFlush(h)
    \/ \E h \in handlers : EnsureStockGet(h)
    \/ \E h \in handlers : EnsureStockFlush(h)
    \/ \E h \in handlers : InsertEvent(h)
    \/ \E h \in handlers : DuplicateReturn(h)
    \/ \E h \in handlers : LockStockRow(h)
    \/ \E h \in handlers : UpdateOnHand(h)
    \/ \E h \in handlers : EnqueueResults(h)
    \/ \E h \in handlers : Commit(h)

Spec == Init /\ [][Next]_vars

SpecConc == InitConc /\ [][Next]_vars

\* ---------------------------------------------------------------- propagation

\* what the worker leaves alone: the engine and the webhook intake
engine ==
    <<fixed, service, products, stock, events, txProducts, txStock, txEvents, locks,
      modified, stock_row, pc, req, cur, results, callLog, intake>>

\* the site_ids of the rows of table sites with is_active
ActiveSites == {r.site_id : r \in {t \in sites_table : t.is_active}}

\* max_retries = settings.propagation_max_retries
max_retries == settings.propagation_max_retries

\* for attempt in range(1, max_retries + 1): the body runs for attempt 1, or the
\* range is empty and the loop is over at once
EnterSite == IF max_retries >= 1 THEN "lookup" ELSE "record"

\* datetime.now(timezone.utc) in _record_failure: the clock only moves forward,
\* and its readings are numbered by the job and the site the worker is at
Now == Len(ConfiguredSites) * taken + site

\* _propagate_one: the SiteSkuMap row session.get returned
MappingRow(site_id, sku) ==
    CHOOSE r \in site_sku_map : r.site_id = site_id /\ r.sku = sku

\* mutant of WriteCall: the product is written whatever the mapping says
WriteCall_ProductOnly(m) ==
    [op |-> "set_product_stock", product_id |-> m.product_id, variation_id |-> 0]

\* _propagate_one: set_variation_stock(site, product_id, variation_id, qty) when
\* mapping.variation_id is set, else set_product_stock(site, product_id, qty)
WriteCall(m) ==
    IF m.variation_id # 0
    THEN [op |-> "set_variation_stock", product_id |-> m.product_id,
          variation_id |-> m.variation_id]
    ELSE [op |-> "set_product_stock", product_id |-> m.product_id,
          variation_id |-> 0]

\* settings.propagation_retry_base_seconds
PropagationRetryBaseSeconds == 2

\* mutant of Delay: the same delay after every attempt
Delay_Constant(k) == PropagationRetryBaseSeconds

\* delay = base_delay * (2 ** (attempt - 1))
Delay(k) == PropagationRetryBaseSeconds * 2 ^ (k - 1)

\* mutant of Mapped: every sku counts as mapped
Mapped_Always(site_id, sku) == TRUE

\* _propagate_one: session.get(SiteSkuMap, (site.site_id, job.sku)) is not None
Mapped(site_id, sku) == <<site_id, sku>> \in mapping

\* mutant of Existing: the SELECT of _record_failure finds nothing
Existing_None(site_id, sku) == {}

\* _record_failure: the PropagationFailure rows of (site_id, sku)
Existing(site_id, sku) ==
    {f \in failures : f.site_id = site_id /\ f.sku = sku}

\* the storefront of site_id holds stock_quantity for sku
SetStock(site_id, sku, stock_quantity) ==
    {r \in remote : ~(r.site_id = site_id /\ r.sku = sku)}
       \cup {[site_id |-> site_id, sku |-> sku, stock_quantity |-> stock_quantity]}

\* mutant of QueueGet: the worker takes the newest job
QueueGet_Newest(q) == [job |-> q[Len(q)], rest |-> SubSeq(q, 1, Len(q) - 1)]

\* _queue.get(): the oldest job, and the queue without it
QueueGet(q) == [job |-> Head(q), rest |-> Tail(q)]

\* mutant of MoreSites: the outer loop stops at the first site that did not succeed
MoreSites_StopAtFailure(result) == site < Len(ConfiguredSites) /\ result = "ok"

\* for site in sites: there is a next site, however this one ended
MoreSites(result) == site < Len(ConfiguredSites)

\* mutant of TaskDone: the job is marked done only when _handle_job returned
TaskDone_OnReturn(raised) ==
    done' = IF raised THEN done ELSE Append(done, [job |-> taken, raised |-> raised])

\* worker, finally: _queue.task_done() for the job taken last, whether
\* _handle_job returned or raised
TaskDone(raised) == done' = Append(done, [job |-> taken, raised |-> raised])

\* the body of `for site in sites` has ended for the site with `result` after the
\* writes ws: the loop takes the next site, or _handle_job returns and the worker
\* marks the job done
FinishSite(result, ws) ==
    /\ outcomes' = Append(outcomes,
          [site_id |-> ConfiguredSites[site], result |-> result,
           writes |-> ws, sleeps |-> sleeps])
    /\ IF MoreSites(result)
       THEN /\ site' = site + 1
            /\ wpc' = EnterSite
            /\ UNCHANGED done
       ELSE /\ site' = 1
            /\ wpc' = "get"
            /\ TaskDone(FALSE)
    /\ attempt' = 1
    /\ success' = FALSE
    /\ last_error' = ""
    /\ writes' = <<>>
    /\ sleeps' = <<>>

\* a webhook handler calls propagation.enqueue(sku, stock_quantity)
Enqueue ==
    /\ shutdown.state = "serving"
    /\ Len(accepted) + dropped < univ.backlog + univ.jobs
    /\ \E sku \in univ.skus, stock_quantity \in 0..univ.qty :
          queue' = PutNowait(queue, [sku |-> sku, stock_quantity |-> stock_quantity])
    /\ accepted' = accepted \o SubSeq(queue', Len(queue) + 1, Len(queue'))
    /\ dropped' = dropped + 1 - (Len(queue') - Len(queue))
    /\ UNCHANGED <<engine, mapping, failures, remote, job, wpc, site, attempt,
                   success, last_error, taken, writes, sleeps, outcomes, done,
                   everActive, alwaysActive>>

\* worker: job = await _queue.get(); _handle_job(job) starts with the first site
WorkerGet ==
    /\ wpc = "get"
    /\ queue # <<>>
    /\ taken < univ.jobs
    /\ job' = QueueGet(queue).job
    /\ queue' = QueueGet(queue).rest
    /\ taken' = taken + 1
    /\ site' = 1
    /\ attempt' = 1
    /\ success' = FALSE
    /\ last_error' = ""
    /\ writes' = <<>>
    /\ sleeps' = <<>>
    /\ outcomes' = <<>>
    /\ wpc' = EnterSite
    /\ everActive' = ActiveSites
    /\ alwaysActive' = ActiveSites
    /\ UNCHANGED <<engine, mapping, failures, remote, accepted, dropped, done>>

\* _propagate_one: the mapping is read; without one the site is satisfied
PropagateLookup ==
    /\ wpc = "lookup"
    /\ IF Mapped(ConfiguredSites[site], job.sku)
       THEN /\ wpc' = "write"
            /\ UNCHANGED <<site, attempt, success, last_error, writes, sleeps,
                           outcomes, done>>
       ELSE FinishSite("skipped", writes)
    /\ UNCHANGED <<engine, queue, mapping, failures, remote, job, accepted,
                   dropped, taken, everActive, alwaysActive>>

\* _propagate_one: set_product_stock / set_variation_stock; the storefront takes
\* the write (2xx), refuses it (another status) or the request raises
PropagateWrite ==
    /\ wpc = "write"
    /\ \E r \in {"ok", "non_success", "raise"} :
          LET call == WriteCall(MappingRow(ConfiguredSites[site], job.sku))
              ws == Append(writes,
                      [site_id |-> ConfiguredSites[site], sku |-> job.sku,
                       stock_quantity |-> job.stock_quantity, ok |-> r = "ok",
                       op |-> call.op, product_id |-> call.product_id,
                       variation_id |-> call.variation_id])
          IN  IF r = "ok"
              THEN /\ remote' = SetStock(ConfiguredSites[site], job.sku,
                                         job.stock_quantity)
                   /\ FinishSite("ok", ws)
              ELSE /\ last_error' = IF r = "raise" THEN "exception"
                                    ELSE "WC API returned non-success"
                   /\ writes' = ws
                   /\ wpc' = IF attempt < max_retries
                             THEN "sleep" ELSE "record"
                   /\ UNCHANGED <<remote, site, attempt, success, sleeps, outcomes,
                                  done>>
    /\ UNCHANGED <<engine, queue, mapping, failures, job, accepted, dropped, taken,
                   everActive, alwaysActive>>

\* _handle_job: await asyncio.sleep(delay), then the next attempt
BackoffSleep ==
    /\ wpc = "sleep"
    /\ sleeps' = Append(sleeps, Delay(attempt))
    /\ attempt' = attempt + 1
    /\ wpc' = "lookup"
    /\ UNCHANGED <<engine, queue, mapping, failures, remote, job, site, success,
                   last_error, accepted, dropped, taken, writes, outcomes, done,
                   everActive, alwaysActive>>

\* the row _record_failure inserts for the job at site_id
NewFailure(site_id) ==
    [id |-> Cardinality(failures) + 1, site_id |-> site_id, sku |-> job.sku,
     payload |-> job, error |-> last_error, attempts |-> max_retries,
     created_at |-> Now, last_tried |-> Now]

\* mutant of UpsertFailure: the row of the pair is deleted and inserted again
UpsertFailure_Reinsert(site_id, existing) ==
    (failures \ existing) \cup {NewFailure(site_id)}

\* mutant of UpsertFailure: an existing row also takes the payload of the job and
\* a new created_at
UpsertFailure_Overwrite(site_id, existing) ==
    IF existing # {}
    THEN (failures \ existing) \cup
           {[NewFailure(site_id) EXCEPT !.id = f.id] : f \in existing}
    ELSE failures \cup {NewFailure(site_id)}

\* _record_failure: the table after the upsert; an existing row gets the error,
\* the attempts and last_tried, its payload and created_at stay
UpsertFailure(site_id, existing) ==
    IF existing # {}
    THEN (failures \ existing) \cup
           {[f EXCEPT !.error = last_error, !.attempts = max_retries,
                      !.last_tried = Now] : f \in existing}
    ELSE failures \cup {NewFailure(site_id)}

\* _record_failure: the row of (site_id, sku) is updated, or inserted when there
\* is none; more than one row makes scalar_one_or_none raise, which ends the job
RecordFailure ==
    /\ wpc = "record"
    /\ LET site_id == ConfiguredSites[site]
           existing == Existing(site_id, job.sku)
       IN  IF Cardinality(existing) > 1
           THEN /\ wpc' = "get"
                /\ site' = 1
                /\ TaskDone(TRUE)
                /\ UNCHANGED <<failures, attempt, success, last_error, writes,
                               sleeps, outcomes>>
           ELSE /\ failures' = UpsertFailure(site_id, existing)
                /\ FinishSite("dead", writes)
    /\ UNCHANGED <<engine, queue, mapping, remote, job, accepted, dropped, taken,
                   everActive, alwaysActive>>

\* the jobs that wait when the worker is watched: none, or one less than the
\* queue holds, all alike, for a sku no site has mapped
Backlog(n, sku) == [i \in 1..n |-> [sku |-> sku, stock_quantity |-> 0]]

\* the propagation worker and the callers of enqueue; no webhook is in progress
InitPropagationWorker ==
    /\ handlers = {}
    /\ settings = HmacSettings
    /\ \E sku \in SKUs, n \in {0, QueueMaxSize - 1} :
          /\ univ = [keys |-> {}, skus |-> {sku}, calls |-> 0, qty |-> MaxQty,
                     backlog |-> n, jobs |-> MaxJobs]
          /\ queue = Backlog(n, sku)
    /\ accepted = queue
    /\ InitLedger
    /\ products = {[sku |-> "A", name |-> "Seeded", backorders |-> FALSE]}
    /\ stock = {[sku |-> "A", on_hand |-> 0, reserved |-> 0]}
    /\ mapping \in SUBSET {<<ConfiguredSites[i], sku>> :
                               i \in DOMAIN ConfiguredSites, sku \in univ.skus}
    /\ univ.backlog > 0 => mapping = {}
    /\ InitWorker

NextPropagation ==
    \/ Enqueue
    \/ WorkerGet
    \/ PropagateLookup
    \/ PropagateWrite
    \/ BackoffSleep
    \/ RecordFailure

SpecPropagation == InitPropagationWorker /\ [][NextPropagation]_vars

\* ---------------------------------------------------------------- worker lifecycle

\* the ledger and the webhook intake
ledger ==
    <<products, stock, events, txProducts, txStock, txEvents, locks, modified,
      stock_row, pc, req, cur, results, callLog, intake>>

\* the worker and its tables, without the record of table sites
worker ==
    <<mapping, failures, remote, job, wpc, site, attempt, success, last_error,
      accepted, dropped, taken, writes, sleeps, outcomes, done>>

\* changes of table sites made through the admin UI in one behaviour
MaxSiteChanges == 1
\* largest stock_quantity of a job when the worker's lifecycle is watched
MaxJobQty == 1
\* enqueue calls, and jobs the worker takes, while table sites changes
MaxSiteJobs == 1
\* the same from startup to shutdown
MaxShutdownJobs == 2

\* _queue._unfinished_tasks: put_nowait adds one, task_done takes one away
Unfinished == Len(accepted) - Len(done)

\* mutant of JoinReturns: the wait ends when no job waits in the queue
JoinReturns_QueueEmpty == queue = <<>>

\* _queue.join() returns when every job put on the queue has been marked done
JoinReturns == Unfinished = 0

\* _record_failure raises (its SELECT, or the commit of get_db_ctx, fails and the
\* session is rolled back): no row is written, the exception leaves _handle_job
\* with the sites that remain not handled, and the worker logs it, marks the job
\* done and waits for the next one
RecordFailureRaises ==
    /\ wpc = "record"
    /\ outcomes' = Append(outcomes,
          [site_id |-> ConfiguredSites[site], result |-> "raised",
           writes |-> writes, sleeps |-> sleeps])
    /\ wpc' = "get"
    /\ site' = 1
    /\ TaskDone(TRUE)
    /\ UNCHANGED <<engine, queue, mapping, failures, remote, job, attempt, success,
                   last_error, accepted, dropped, taken, writes, sleeps,
                   everActive, alwaysActive>>

\* admin UI, sites_create: a row of table sites is added unless the site_id exists
SitesCreate ==
    /\ site_changes < MaxSiteChanges
    /\ \E site_id \in AdminSites, is_active \in BOOLEAN :
          /\ \A r \in sites_table : r.site_id # site_id
          /\ sites_table' =
                sites_table \cup {[site_id |-> site_id, is_active |-> is_active]}
          /\ everActive' = IF is_active THEN everActive \cup {site_id} ELSE everActive
    /\ site_changes' = site_changes + 1
    /\ UNCHANGED <<fixed, delivery, shutdown, site_sku_map, refresh_result, refresh, ledger,
                   queue, worker, alwaysActive>>

\* admin UI, sites_deactivate: site.is_active = not site.is_active
SitesDeactivate ==
    /\ site_changes < MaxSiteChanges
    /\ \E r \in sites_table :
          /\ sites_table' =
                (sites_table \ {r}) \cup {[r EXCEPT !.is_active = ~r.is_active]}
          /\ everActive' = IF r.is_active THEN everActive
                           ELSE everActive \cup {r.site_id}
          /\ alwaysActive' = IF r.is_active THEN alwaysActive \ {r.site_id}
                             ELSE alwaysActive
    /\ site_changes' = site_changes + 1
    /\ UNCHANGED <<fixed, delivery, shutdown, site_sku_map, refresh_result, refresh, ledger,
                   queue, worker>>

\* _shutdown: the host has stopped serving requests and awaits
\* asyncio.wait_for(propagation._queue.join(), timeout=30)
ShutdownBegin ==
    /\ shutdown.state = "serving"
    /\ shutdown' = [state |-> "draining", unfinished |-> Unfinished]
    /\ UNCHANGED <<fixed, delivery, sites_table, site_sku_map, refresh_result, refresh,
                   site_changes, ledger, queue, propagation>>

\* _shutdown: join() has returned, and so does _shutdown
ShutdownDrained ==
    /\ shutdown.state = "draining"
    /\ JoinReturns
    /\ shutdown' = [shutdown EXCEPT !.state = "drained"]
    /\ UNCHANGED <<fixed, delivery, sites_table, site_sku_map, refresh_result, refresh,
                   site_changes, ledger, queue, propagation>>

\* _shutdown: the 30 s have passed with join() still waiting; wait_for cancels it
\* and raises TimeoutError, which _shutdown logs.  How long the storefronts and
\* the database take to answer is open, so the 30 s can end at any step.
ShutdownTimeout ==
    /\ shutdown.state = "draining"
    /\ ~JoinReturns
    /\ shutdown' = [shutdown EXCEPT !.state = "timed_out"]
    /\ UNCHANGED <<fixed, delivery, sites_table, site_sku_map, refresh_result, refresh,
                   site_changes, ledger, queue, propagation>>

\* the worker and the callers of enqueue after startup, for `jobs` jobs of a
\* stock_quantity up to qty: the queue is empty; the first configured site and the
\* site the admin UI can add map the sku, the second configured site may
InitAfterStartup(jobs, qty) ==
    /\ handlers = {}
    /\ settings = HmacSettings
    /\ univ = [keys |-> {}, skus |-> {"A"}, calls |-> 0, qty |-> qty,
               backlog |-> 0, jobs |-> jobs]
    /\ queue = <<>>
    /\ accepted = <<>>
    /\ InitLedger
    /\ products = {[sku |-> "A", name |-> "Seeded", backorders |-> FALSE]}
    /\ stock = {[sku |-> "A", on_hand |-> 0, reserved |-> 0]}
    /\ \E m \in SUBSET {<<ConfiguredSites[2], "A">>} :
          mapping = m \cup {<<ConfiguredSites[1], "A">>, <<"s3", "A">>}
    /\ InitWorker

InitLifecycle == InitAfterStartup(MaxJobs, MaxJobQty)

InitSites == InitAfterStartup(MaxSiteJobs, 0)

InitShutdown == InitAfterStartup(MaxShutdownJobs, 0)

\* the steps of the worker task; the database may fail under _record_failure (a
\* failure under the lookup of _propagate_one is caught as one more failed attempt)
NextWorkerTask ==
    \/ WorkerGet
    \/ PropagateLookup
    \/ PropagateWrite
    \/ BackoffSleep
    \/ RecordFailure
    \/ RecordFailureRaises

\* the worker over a database that may fail
NextLifecycle ==
    \/ Enqueue
    \/ WorkerGet
    \/ PropagateLookup
    \/ PropagateWrite
    \/ BackoffSleep
    \/ RecordFailure
    \/ RecordFailureRaises

SpecLifecycle == InitLifecycle /\ [][NextLifecycle]_vars

\* the same worker from startup to the host's shutdown
NextShutdown ==
    \/ Enqueue
    \/ WorkerGet
    \/ PropagateLookup
    \/ PropagateWrite
    \/ BackoffSleep
    \/ RecordFailure
    \/ RecordFailureRaises
    \/ ShutdownBegin
    \/ ShutdownDrained
    \/ ShutdownTimeout

\* the worker while the admin UI changes table sites
NextSites ==
    \/ Enqueue
    \/ WorkerGet
    \/ PropagateLookup
    \/ PropagateWrite
    \/ BackoffSleep
    \/ RecordFailure
    \/ SitesCreate
    \/ SitesDeactivate

SpecSites == InitSites /\ [][NextSites]_vars

\* the event loop runs every task that can run: the worker task takes its next
\* step
SpecLifecycleFair == SpecLifecycle /\ WF_vars(NextWorkerTask)

\* and so does the host: a join() that can return returns, and the timer of
\* wait_for fires
SpecShutdown ==
    /\ InitShutdown
    /\ [][NextShutdown]_vars
    /\ WF_vars(NextWorkerTask)
    /\ WF_vars(ShutdownDrained)
    /\ WF_vars(ShutdownTimeout)

\* ---------------------------------------------------------------- webhook door

\* apply_delta calls started in one behaviour of the webhook routes
MaxWebhookCalls == 2
\* webhooks delivered in one behaviour of the webhook routes
MaxDeliveries == 2

\* settings with a bearer token, and with a decrement_status written in capitals
BearerSettings ==
    [webhook_shared_secret |-> "secret", webhook_bearer_token |-> "token",
     decrement_status |-> "Processing",
     propagation_max_retries |-> PropagationMaxRetries]

\* settings with neither secret nor token: the development mode
OpenSettings ==
    [webhook_shared_secret |-> "", webhook_bearer_token |-> "",
     decrement_status |-> "processing",
     propagation_max_retries |-> PropagationMaxRetries]

\* what a delivery carries to authenticate itself
Credentials ==
    {"none", "signed", "signed_noise", "other_key", "tampered", "bad_base64",
     "bearer", "wrong_bearer"}

\* the status strings of order payloads
Statuses == {"processing", "Processing", "pending"}

\* the headers and the body of a delivery with credentials c.  A signature is what
\* the sender encoded: the key and the body it signed, whether characters outside
\* the base64 alphabet were added, and whether the padding is right.
Headers(c) ==
    [body |-> IF c = "tampered" THEN "changed" ELSE "body",
     x_wc_webhook_signature |->
        IF c \in {"signed", "signed_noise", "other_key", "tampered", "bad_base64"}
        THEN [key |-> IF c = "other_key" THEN "guess" ELSE "secret",
              body |-> "body", noise |-> c = "signed_noise",
              padded |-> c # "bad_base64"]
        ELSE [key |-> "", body |-> "", noise |-> FALSE, padded |-> FALSE],
     authorization |->
        CASE c = "bearer" -> "Bearer token"
          [] c = "wrong_bearer" -> "Bearer guess"
          [] OTHER -> ""]

\* the header is absent (or empty)
NoSignature(sig) == sig.key = ""

\* hmac.new(key, msg, sha256).digest(): one digest per key and message
HmacDigest(key, msg) == <<key, msg>>

\* base64.b64decode(header): characters outside the alphabet are discarded; wrong
\* padding raises
B64Decode(sig) == IF sig.padded THEN HmacDigest(sig.key, sig.body) ELSE <<"error">>

\* authorization.removeprefix("Bearer ").strip() of a header that starts with
\* "Bearer "
BearerToken(authorization) ==
    CASE authorization = "Bearer token" -> "token"
      [] authorization = "Bearer guess" -> "guess"
      [] OTHER -> ""

\* mutant of VerifyWebhook: every delivery is let in
VerifyWebhook_AcceptAll(r) == 200

\* verify_webhook: 200 when the body is returned to the route, else the status of
\* the HTTPException
VerifyWebhook(r) ==
    IF settings.webhook_bearer_token # ""
    THEN IF /\ r.authorization # ""
            /\ BearerToken(r.authorization) = settings.webhook_bearer_token
         THEN 200 ELSE 401
    ELSE IF settings.webhook_shared_secret = "" THEN 200
    ELSE IF NoSignature(r.x_wc_webhook_signature) THEN 401
    ELSE IF B64Decode(r.x_wc_webhook_signature) = <<"error">> THEN 400
    ELSE IF HmacDigest(settings.webhook_shared_secret, r.body)
               = B64Decode(r.x_wc_webhook_signature)
         THEN 200 ELSE 401

\* str.lower() on the status strings
Lower(status) ==
    CASE status \in {"processing", "Processing"} -> "processing"
      [] OTHER -> status

\* mutant of WrongStatus: no status is ignored
WrongStatus_Never(status) == FALSE

\* order_paid: payload.status.lower() != settings.decrement_status.lower()
WrongStatus(status) == Lower(status) # Lower(settings.decrement_status)

\* mutant of Abort: what the transaction wrote is committed
Abort_Commits(h) ==
    /\ products' = products \cup txProducts[h]
    /\ stock' = Overlay(stock, txStock[h])
    /\ events' = events \cup txEvents[h]
    /\ Rollback(h)

\* get_db, except Exception: session.rollback(), and the exception is raised again
Abort(h) ==
    /\ Rollback(h)
    /\ UNCHANGED <<products, stock, events>>

\* a webhook is delivered to order_paid or refund_or_cancel: verify_webhook lets
\* it in or refuses it; order_paid ignores a status other than decrement_status;
\* otherwise the handler calls bulk_apply_deltas with the session of get_db
Deliver(h) ==
    /\ pc[h] = "idle"
    /\ delivery.n < MaxDeliveries
    /\ \E k \in univ.keys, c \in univ.credentials, st \in Statuses :
          LET status == IF k[4] = "order_paid" THEN st ELSE "-"
              code == VerifyWebhook(Headers(c))
              ignored == k[4] = "order_paid" /\ WrongStatus(status)
              passed == code = 200 /\ ~ignored
          IN  /\ k[4] # "order_paid" => st = "processing"
              /\ passed => CallsStarted < univ.calls
              /\ delivery' =
                    [n |-> delivery.n + 1, event_type |-> k[4], status |-> status,
                     credentials |-> c,
                     code |-> IF code # 200 THEN code
                              ELSE IF ignored THEN 204 ELSE 0]
              /\ IF passed
                 THEN /\ req' = [req EXCEPT ![h] =
                            [site_id |-> k[1], order_id |-> k[2], event_type |-> k[4]]]
                      /\ pc' = [pc EXCEPT ![h] = "bulk"]
                 ELSE UNCHANGED <<req, pc>>
    /\ UNCHANGED <<fixed, shutdown, sites_table, site_sku_map, refresh_result, refresh,
                   site_changes, products, stock, events, txProducts, txStock,
                   txEvents, locks, modified, stock_row, cur, results, callLog,
                   intake, queue, propagation>>

\* a statement of apply_delta fails with a database error that is not the
\* duplicate-key violation (the connection is lost, the statement times out): the
\* exception leaves apply_delta, bulk_apply_deltas and the handler before anything
\* is enqueued, get_db rolls the transaction back, and the request is answered 500
DatabaseError(h) ==
    /\ pc[h] \in InCall
    /\ Abort(h)
    /\ pc' = [pc EXCEPT ![h] = "idle"]
    /\ req' = [req EXCEPT ![h] = NoReq]
    /\ cur' = [cur EXCEPT ![h] = NoCall]
    /\ results' = [results EXCEPT ![h] = <<>>]
    /\ line_items' = [line_items EXCEPT ![h] = <<>>]
    /\ stock_row' = [stock_row EXCEPT ![h] = {}]
    /\ delivery' = [delivery EXCEPT !.code = 500]
    /\ UNCHANGED <<fixed, shutdown, sites_table, site_sku_map, refresh_result, refresh,
                   site_changes, callLog, answered, queue, propagation>>

\* one handler behind the door; a delivery carries valid credentials or one other
\* kind
InitWebhook ==
    /\ handlers = {"h1"}
    /\ \E sku \in SKUs, c \in Credentials :
          /\ \/ settings = HmacSettings /\ c \notin {"signed", "wrong_bearer"}
             \/ settings = BearerSettings /\ c \in {"none", "wrong_bearer", "signed"}
             \/ settings = OpenSettings /\ c = "none"
          /\ univ = [keys |-> {BaseKey, <<"s1", "o1", "l1", "refund">>},
                     skus |-> {sku}, calls |-> MaxWebhookCalls, qty |-> 1,
                     credentials |->
                        {c} \cup (CASE settings = HmacSettings -> {"signed"}
                                    [] settings = BearerSettings -> {"bearer"}
                                    [] OTHER -> {})]
    /\ InitLedger
    /\ InitPropagation

NextWebhook ==
    \/ \E h \in handlers : Deliver(h)
    \/ \E h \in handlers : BulkNextItem(h)
    \/ \E h \in handlers : EnsureProductGet(h)
    \/ \E h \in handlers : EnsureProductFlush(h)
    \/ \E h \in handlers : EnsureStockGet(h)
    \/ \E h \in handlers : EnsureStockFlush(h)
    \/ \E h \in handlers : InsertEvent(h)
    \/ \E h \in handlers : DuplicateReturn(h)
    \/ \E h \in handlers : LockStockRow(h)
    \/ \E h \in handlers : UpdateOnHand(h)
    \/ \E h \in handlers : DatabaseError(h)
    \/ \E h \in handlers : EnqueueResults(h)
    \/ \E h \in handlers : Commit(h)

SpecWebhook == InitWebhook /\ [][NextWebhook]_vars

\* ---------------------------------------------------------------- worker settings

\* largest propagation_max_retries the environment sets
MaxConfiguredRetries == 2
\* enqueue calls, and jobs the worker takes, under those settings
MaxConfiguredJobs == 2

\* product and variation ids of the storefronts' catalogues
VariationIds == {0, 7}

\* the worker after startup under settings read from the environment:
\* PROPAGATION_MAX_RETRIES is any integer, the sku is mapped at the first site and
\* perhaps at the second, to a simple product or to a variation
InitConfigured ==
    /\ handlers = {}
    /\ \E n \in -1..MaxConfiguredRetries :
          settings = [HmacSettings EXCEPT !.propagation_max_retries = n]
    /\ univ = [keys |-> {}, skus |-> {"A"}, calls |-> 0, qty |-> 1,
               backlog |-> 0, jobs |-> MaxConfiguredJobs]
    /\ queue = <<>>
    /\ accepted = <<>>
    /\ InitLedger
    /\ products = {[sku |-> "A", name |-> "Seeded", backorders |-> FALSE]}
    /\ stock = {[sku |-> "A", on_hand |-> 0, reserved |-> 0]}
    /\ \E m \in SUBSET {<<ConfiguredSites[2], "A">>} :
          mapping = m \cup {<<ConfiguredSites[1], "A">>}
    /\ \E v \in [mapping -> VariationIds] :
          InitWorkerTables(
             {MapRow(k[1], k[2], IF k[1] = ConfiguredSites[1] THEN 3 ELSE 4, v[k]) :
                k \in mapping})

NextConfigured ==
    \/ Enqueue
    \/ WorkerGet
    \/ PropagateLookup
    \/ PropagateWrite
    \/ BackoffSleep
    \/ RecordFailure

SpecConfigured == InitConfigured /\ [][NextConfigured]_vars

\* ---------------------------------------------------------------- mapping refresh

\* calls of refresh_site_mappings in one behaviour
MaxRefreshes == 2

\* fetch_all_products: params per_page
PerPage == 100

\* the numbers of products a storefront's catalogue has: none, less than a page,
\* exactly one page, one page and one product
CatalogueSizes == {0, 2, PerPage, PerPage + 1}

\* what neither the refresh nor a webhook committed beside it touches
outside_refresh ==
    <<fixed, delivery, shutdown, sites_table, site_changes, txProducts, txStock,
      txEvents, locks, modified, stock_row, pc, req, cur, results, line_items,
      failures, remote, job, wpc, site, attempt, success, last_error, dropped,
      taken, writes, sleeps, outcomes, done, everActive, alwaysActive>>

\* what a webhook writes and the refresh leaves alone
webhook_side == <<events, callLog, answered, queue, accepted>>

\* the i-th product of a storefront: the first is simple, has the seeded SKU and
\* no name; the second is variable; the one after a full page is simple and named,
\* and its SKU has blanks around it; the others are drafts whose SKU is a blank
StoreProduct(i) ==
    CASE i = 1 -> [id |-> 1, type |-> "simple", sku |-> "A", name |-> ""]
      [] i = 2 -> [id |-> 2, type |-> "variable", sku |-> "", name |-> "Widget"]
      [] i = PerPage + 1 ->
            [id |-> i, type |-> "simple", sku |-> " U ", name |-> "Last"]
      [] OTHER -> [id |-> i, type |-> "simple", sku |-> " ", name |-> "Draft"]

\* the variations of the variable product: one with a SKU, one without
StoreVariations(product_id) ==
    IF product_id = 2
    THEN <<[id |-> 21, sku |-> "U"], [id |-> 22, sku |-> ""]>>
    ELSE <<>>

\* str.strip() on the SKUs of the catalogue
Strip(s) ==
    CASE s = " " -> ""
      [] s = " U " -> "U"
      [] OTHER -> s

Min(a, b) == IF a < b THEN a ELSE b

\* resp.json() of GET /products?per_page=100&page=p for a catalogue of n products
Batch(n, p) ==
    [i \in 1..(Min(PerPage * p, n) - Min(PerPage * (p - 1), n)) |->
        StoreProduct(PerPage * (p - 1) + i)]

\* the rows of `written` over those of `base`, by primary key (site_id, sku)
MapOverlay(base, written) ==
    {r \in base :
        ~\E w \in written : w.site_id = r.site_id /\ w.sku = r.sku} \cup written

\* what the loop upserts for a product or a variation: the SKU as the storefront
\* sent it and stripped, name or sku, and the coordinates (variation_id 0: none)
Record(id, remote_sku, product_name, product_id, variation_id) ==
    [id |-> id, remote |-> remote_sku, sku |-> Strip(remote_sku),
     name |-> IF product_name # "" THEN product_name ELSE Strip(remote_sku),
     product_id |-> product_id, variation_id |-> variation_id]

\* mutant of UpsertProduct: the Stock row of the SKU is written anew
UpsertProduct_ResetsStock(w, sku, name) ==
    LET existing == Get(Overlay(products, w.products), sku)
        row == IF existing # {}
               THEN [(CHOOSE r \in existing : TRUE) EXCEPT !.name = name]
               ELSE [sku |-> sku, name |-> name, backorders |-> FALSE]
    IN  [w EXCEPT
           !.products = Overlay(@, {row}),
           !.stock = Overlay(@, {[sku |-> sku, on_hand |-> 0, reserved |-> 0]})]

\* _upsert_product in a session that has written w, when its flush succeeds: the
\* Product gets the name or is created, and a Stock row is created when the SKU
\* has none
UpsertProduct(w, sku, name) ==
    LET existing == Get(Overlay(products, w.products), sku)
        row == IF existing # {}
               THEN [(CHOOSE r \in existing : TRUE) EXCEPT !.name = name]
               ELSE [sku |-> sku, name |-> name, backorders |-> FALSE]
    IN  [w EXCEPT
           !.products = Overlay(@, {row}),
           !.stock = IF HasRow(Overlay(stock, w.stock), sku) THEN @
                     ELSE @ \cup {[sku |-> sku, on_hand |-> 0, reserved |-> 0]}]

\* _upsert_mapping in a session that has written w
UpsertMapping(w, site_id, sku, product_id, variation_id) ==
    [w EXCEPT !.site_sku_map =
        MapOverlay(@, {MapRow(site_id, sku, product_id, variation_id)})]

\* the try block has run for the record without an exception: inserted += 1
Counted(r, rec, session) ==
    [r EXCEPT !.session = session, !.inserted = @ + 1,
              !.upserted = Append(@, rec), !.pending = NoRecord]

\* _upsert_product and _upsert_mapping for the record, both done
Upserted(r, rec) ==
    Counted(r, rec,
            UpsertMapping(UpsertProduct(r.session, rec.sku, rec.name),
                          r.site_id, rec.sku, rec.product_id, rec.variation_id))

\* try: _upsert_product(...); _upsert_mapping(...); inserted += 1, except Exception:
\* errors.append(...).  The database rejects a statement for the record
\* upsert_fail before anything of it is written; session.get finds the Product,
\* or it finds none and the new Product waits for its flush
TryUpsert(r, rec, ret) ==
    IF rec.id = r.upsert_fail THEN [r EXCEPT !.errors = @ + 1, !.pc = ret]
    ELSE IF HasRow(Overlay(products, r.session.products), rec.sku)
    THEN [Upserted(r, rec) EXCEPT !.pc = ret]
    ELSE [r EXCEPT !.pc = "flush_product", !.pending = rec, !.ret = ret]

\* the first product from index i on that the loop does not pass over: it is
\* variable, or it has a SKU (none: one past the end)
RECURSIVE NextWork(_, _)
NextWork(fetched, i) ==
    IF i > Len(fetched) THEN i
    ELSE IF fetched[i].type = "variable" \/ Strip(fetched[i].sku) # "" THEN i
    ELSE NextWork(fetched, i + 1)

\* the variations from the first one that has a SKU
RECURSIVE WithSku(_)
WithSku(variations) ==
    IF variations = <<>> THEN <<>>
    ELSE IF Strip(Head(variations).sku) # "" THEN variations
    ELSE WithSku(Tail(variations))

\* refresh_all_mappings or the CLI calls refresh_site_mappings for a configured
\* site, with the session of its caller; the storefront has a catalogue, and the
\* GET of page fail_at (0: none), the GET of the variations and the upsert of
\* the record upsert_fail (0: none) will fail or not
RefreshBegin ==
    /\ refresh.pc = "idle"
    /\ refresh.n < MaxRefreshes
    /\ \E i \in DOMAIN ConfiguredSites, n \in CatalogueSizes, f \in 0..2,
          v \in BOOLEAN, u \in {0, PerPage + 1} :
          /\ v => n >= 2
          /\ f = 2 => n >= PerPage
          /\ u # 0 => n >= u /\ f = 0
          /\ refresh' = [refresh EXCEPT
                !.pc = "fetch", !.n = @ + 1, !.site_id = ConfiguredSites[i],
                !.catalogue = n, !.fail_at = f, !.variations_fail = v,
                !.upsert_fail = u, !.page = 1, !.fetched = <<>>, !.next = 1,
                !.inserted = 0, !.errors = 0, !.upserted = <<>>,
                !.rolled_back = FALSE]
    /\ UNCHANGED <<products, stock, site_sku_map, mapping, refresh_result>>
    /\ UNCHANGED <<outside_refresh, webhook_side>>

\* fetch_all_products: a page arrives; an empty or a short page ends the walk
FetchPage ==
    /\ refresh.pc = "fetch"
    /\ refresh.page # refresh.fail_at
    /\ LET batch == Batch(refresh.catalogue, refresh.page)
       IN  refresh' =
              IF batch = <<>> THEN [refresh EXCEPT !.pc = "upsert"]
              ELSE IF Len(batch) < PerPage
              THEN [refresh EXCEPT !.pc = "upsert", !.fetched = @ \o batch]
              ELSE [refresh EXCEPT !.fetched = @ \o batch, !.page = @ + 1]
    /\ UNCHANGED <<products, stock, site_sku_map, mapping, refresh_result>>
    /\ UNCHANGED <<outside_refresh, webhook_side>>

\* mutant of FetchFails: the pages fetched before the failure are kept and
\* upserted, and the failure is counted as one error
FetchFails_KeepsPages ==
    /\ refresh.pc = "fetch"
    /\ refresh.page = refresh.fail_at
    /\ refresh' = [refresh EXCEPT !.pc = "upsert", !.errors = 1]
    /\ UNCHANGED <<products, stock, site_sku_map, mapping, refresh_result>>
    /\ UNCHANGED <<outside_refresh, webhook_side>>

\* fetch_all_products: raise_for_status raises on a page; refresh_site_mappings
\* catches it and returns MappingRefreshResult(inserted=0, errors=[msg]) without
\* having used its session
FetchFails ==
    /\ refresh.pc = "fetch"
    /\ refresh.page = refresh.fail_at
    /\ refresh_result' = [site_id |-> refresh.site_id, inserted |-> 0, errors |-> 1]
    /\ refresh' = [refresh EXCEPT !.pc = "idle", !.fetched = <<>>, !.next = 0]
    /\ UNCHANGED <<products, stock, site_sku_map, mapping>>
    /\ UNCHANGED <<outside_refresh, webhook_side>>

\* the loop over the products, up to the next product that has a SKU or is
\* variable: the variations are fetched (a failure is one error), or the simple
\* product is upserted
UpsertNext ==
    /\ refresh.pc = "upsert"
    /\ LET i == NextWork(refresh.fetched, refresh.next)
           r == [refresh EXCEPT !.next = i + 1]
       IN  /\ i <= Len(refresh.fetched)
           /\ LET product == refresh.fetched[i]
              IN  refresh' =
                     IF product.type = "variable"
                     THEN IF refresh.variations_fail
                          THEN [r EXCEPT !.errors = @ + 1]
                          ELSE [r EXCEPT !.pc = "variations", !.product = product,
                                         !.variations = StoreVariations(product.id)]
                     ELSE TryUpsert(r, Record(product.id, product.sku, product.name,
                                              product.id, 0), "upsert")
    /\ UNCHANGED <<products, stock, site_sku_map, mapping, refresh_result>>
    /\ UNCHANGED <<outside_refresh, webhook_side>>

\* the loop over the variations, up to the next variation that has a SKU
VariationNext ==
    /\ refresh.pc = "variations"
    /\ LET vs == WithSku(refresh.variations)
       IN  refresh' =
              IF vs = <<>> THEN [refresh EXCEPT !.pc = "upsert", !.variations = <<>>]
              ELSE TryUpsert([refresh EXCEPT !.variations = Tail(vs)],
                             Record(Head(vs).id, Head(vs).sku, refresh.product.name,
                                    refresh.product.id, Head(vs).id),
                             "variations")
    /\ UNCHANGED <<products, stock, site_sku_map, mapping, refresh_result>>
    /\ UNCHANGED <<outside_refresh, webhook_side>>

\* _upsert_product: the flush of the new Product.  When another transaction has
\* committed a Product of the SKU since session.get, the INSERT fails with an
\* IntegrityError: session.rollback() undoes everything the session has written
\* since its last commit and _upsert_product returns; _upsert_mapping then writes
\* the mapping and the record is counted.  (A Stock or SiteSkuMap INSERT loses
\* only to a writer of the same rows, which a webhook is not.)
FlushProduct ==
    /\ refresh.pc = "flush_product"
    /\ LET rec == refresh.pending
           r == [refresh EXCEPT !.pc = refresh.ret]
       IN  refresh' =
              IF HasRow(products, rec.sku)
              THEN [Counted(r, rec,
                            UpsertMapping(EmptySession, r.site_id, rec.sku,
                                          rec.product_id, rec.variation_id))
                      EXCEPT !.rolled_back = TRUE]
              ELSE Upserted(r, rec)
    /\ UNCHANGED <<products, stock, site_sku_map, mapping, refresh_result>>
    /\ UNCHANGED <<outside_refresh, webhook_side>>

\* the loop is over: session.commit(), and the summary is returned
RefreshCommit ==
    /\ refresh.pc = "upsert"
    /\ NextWork(refresh.fetched, refresh.next) > Len(refresh.fetched)
    /\ products' = Overlay(products, refresh.session.products)
    /\ stock' = Overlay(stock, refresh.session.stock)
    /\ site_sku_map' = MapOverlay(site_sku_map, refresh.session.site_sku_map)
    /\ mapping' = {<<r.site_id, r.sku>> : r \in site_sku_map'}
    /\ refresh_result' = [site_id |-> refresh.site_id, inserted |-> refresh.inserted,
                          errors |-> refresh.errors]
    /\ refresh' = [refresh EXCEPT !.pc = "idle", !.fetched = <<>>, !.next = 0,
                                  !.session = EmptySession]
    /\ UNCHANGED <<outside_refresh, webhook_side>>

\* beside the refresh a refund webhook of one unit of SKU "U", which the ledger
\* does not know, is handled and committed: its Product and Stock rows and its
\* event are written, its job is enqueued, and it is answered.  The INSERT of the
\* Product would wait for a session that has inserted the same SKU.
WebhookFirstUse ==
    /\ ~HasRow(products, "U")
    /\ ~HasRow(refresh.session.products, "U")
    /\ LET r == [site_id |-> "s1", order_id |-> "o1", event_type |-> "refund"]
           c == [line_item_id |-> "l1", sku |-> "U", delta |-> 1]
       IN  /\ products' = products \cup {NewProduct("U")}
           /\ stock' = stock \cup {[sku |-> "U", on_hand |-> 1, reserved |-> 0]}
           /\ events' = events \cup {NewEvent(r, c)}
           /\ callLog' = Append(callLog,
                 [site_id |-> r.site_id, order_id |-> r.order_id,
                  line_item_id |-> c.line_item_id, event_type |-> r.event_type,
                  sku |-> c.sku, delta |-> c.delta, was_new |-> TRUE, on_hand |-> 1,
                  overlap |-> FALSE])
           /\ answered' = Append(answered, {Key(NewEvent(r, c))})
           /\ queue' = PutNowait(queue, [sku |-> "U", stock_quantity |-> 1])
           /\ accepted' = accepted \o SubSeq(queue', Len(queue) + 1, Len(queue'))
    /\ UNCHANGED <<site_sku_map, mapping, refresh_result, refresh>>
    /\ UNCHANGED outside_refresh

\* the tables after startup: SKU "A" is seeded, and mapped at s1 or not
InitMapping ==
    /\ handlers = {"h1"}
    /\ settings = HmacSettings
    /\ univ = [keys |-> {BaseKey}, skus |-> {"A"}, calls |-> 0, qty |-> 0]
    /\ InitLedger
    /\ queue = <<>>
    /\ accepted = <<>>
    /\ \E m \in SUBSET {<<"s1", "A">>} : mapping = m
    /\ InitWorker

NextMapping ==
    \/ RefreshBegin
    \/ FetchPage
    \/ FetchFails
    \/ UpsertNext
    \/ VariationNext
    \/ FlushProduct
    \/ RefreshCommit
    \/ WebhookFirstUse

SpecMapping == InitMapping /\ [][NextMapping]_vars

\* ---------------------------------------------------------------- intake and worker

\* apply_delta calls started in one behaviour of the intake with its worker
MaxConvergeCalls == 2

\* the webhook handlers and the propagation worker of one process: the handlers
\* enqueue, the worker task takes the jobs.  One SKU is ordered and refunded, the
\* first site has it mapped, the second has or has not; PROPAGATION_MAX_RETRIES
\* is 1, so that a site write that fails is a failure recorded
InitConverge ==
    /\ handlers = Handlers
    /\ settings = [HmacSettings EXCEPT !.propagation_max_retries = 1]
    /\ \E k \in Variants, sku \in SKUs :
          univ = [keys |-> {BaseKey, k}, skus |-> {sku}, calls |-> MaxConvergeCalls,
                  qty |-> 1, backlog |-> 0, jobs |-> MaxConvergeCalls]
    /\ InitLedger
    /\ queue = <<>>
    /\ accepted = <<>>
    /\ \E m \in SUBSET {<<ConfiguredSites[2], sku>> : sku \in univ.skus} :
          mapping = m \cup {<<ConfiguredSites[1], sku>> : sku \in univ.skus}
    /\ InitWorker

\* with one attempt per site write the worker never sleeps
NextConverge ==
    \/ \E h \in handlers : ReceiveWebhook(h)
    \/ \E h \in handlers : BulkNextItem(h)
    \/ \E h \in handlers : EnsureProductGet(h)
    \/ \E h \in handlers : EnsureProductFlush(h)
    \/ \E h \in handlers : EnsureStockGet(h)
    \/ \E h \in handlers : EnsureStockFlush(h)
    \/ \E h \in handlers : InsertEvent(h)
    \/ \E h \in handlers : DuplicateReturn(h)
    \/ \E h \in handlers : LockStockRow(h)
    \/ \E h \in handlers : UpdateOnHand(h)
    \/ \E h \in handlers : EnqueueResults(h)
    \/ \E h \in handlers : Commit(h)
    \/ WorkerGet
    \/ PropagateLookup
    \/ PropagateWrite
    \/ RecordFailure

SpecConverge == InitConverge /\ [][NextConverge]_vars

\* ---------------------------------------------------------------- properties

\* every request has been answered and its transaction ended
Quiescent == \A h \in handlers : pc[h] = "idle"

SameArguments(c, d) ==
    /\ Key(c) = Key(d)
    /\ c.sku = d.sku
    /\ c.delta = d.delta

OnHand(table, sku) == (CHOOSE r \in table : r.sku = sku).on_hand

\* C1 (idempotency): once the requests are answered, N >= 1 calls of apply_delta
\* with the same arguments, in one transaction or in several, have left exactly one
\* InventoryEvent row for the key and the on_hand the first call returned.
C1_Idempotency ==
    (/\ Quiescent
     /\ callLog # <<>>
     /\ \A i \in DOMAIN callLog : SameArguments(callLog[i], callLog[1]))
    => /\ Cardinality({e \in events : Key(e) = Key(callLog[1])}) = 1
       /\ HasRow(stock, callLog[1].sku)
       /\ OnHand(stock, callLog[1].sku) = callLog[1].on_hand

\* C2 (a duplicate undoes only the failed insert): the step of apply_delta that
\* detects a duplicate key leaves the uncommitted work of its transaction as it
\* was: the events inserted, the products created and the stock as the session
\* holds it are all still there, to be committed with the transaction.
C2_OnlyFailedInsertUndone ==
    [][\A h \in handlers :
          (pc[h] = "insert_event" /\ pc'[h] = "duplicate")
          => /\ txEvents'[h] = txEvents[h]
             /\ ViewProducts(h)' = ViewProducts(h)
             /\ SessionStock(h)' = SessionStock(h)]_vars

AllProducts == products \cup UNION {txProducts[h] : h \in Handlers}

AllStock == stock \cup UNION {txStock[h] \cup modified[h] : h \in Handlers}

Backorders(sku) == \E p \in AllProducts : p.sku = sku /\ p.backorders

StartOnHand(sku) == IF HasRow(seed, sku) THEN OnHand(seed, sku) ELSE 0

\* C3 (floor): for a SKU whose product has backorders = false, every on_hand that
\* apply_delta returns, holds unflushed, flushes or commits is >= 0.
C3_Floor ==
    \A sku \in SKUs :
        ~Backorders(sku)
        => /\ \A r \in AllStock : r.sku = sku => r.on_hand >= 0
           /\ \A i \in DOMAIN callLog : callLog[i].sku = sku => callLog[i].on_hand >= 0

\* an order larger than the stock has been applied and committed: on_hand is 0
C3_Witness ==
    /\ Quiescent
    /\ ~Backorders("A")
    /\ \E e \in events :
          /\ events = {e}
          /\ e.sku = "A"
          /\ StartOnHand("A") + e.delta < 0
    /\ OnHand(stock, "A") = 0

RECURSIVE SumDeltas(_)
SumDeltas(S) ==
    IF S = {} THEN 0
    ELSE LET e == CHOOSE x \in S : TRUE
         IN  e.delta + SumDeltas(S \ {e})

\* C4 (backorders): for a SKU whose product has backorders = true, the committed
\* on_hand is the starting value plus the sum of the deltas of the committed events
\* of the SKU, negative or not: apply_delta never clamps it.
C4_Backorders ==
    \A r \in stock :
        Backorders(r.sku)
        => r.on_hand = StartOnHand(r.sku) + SumDeltas({e \in events : e.sku = r.sku})

\* a backorder SKU has been driven below zero and committed
C4_Witness ==
    /\ Quiescent
    /\ Backorders("A")
    /\ events # {}
    /\ OnHand(stock, "A") < 0

Abs(n) == IF n < 0 THEN -n ELSE n

\* the calls so far are an order_paid of quantity q and then a refund or cancel of
\* the same quantity for the same SKU, each applied as a new event
PaidThenReturned ==
    /\ Len(callLog) = 2
    /\ callLog[1].event_type = "order_paid"
    /\ callLog[2].event_type \in {"refund", "cancel"}
    /\ callLog[1].was_new /\ callLog[2].was_new
    /\ callLog[1].sku = callLog[2].sku
    /\ Abs(callLog[1].delta) = Abs(callLog[2].delta)

\* C5 as stated (inversion): an order_paid of quantity q applied once and then a
\* refund or cancel of q applied once under another key leave the committed on_hand
\* of the SKU where it started, for every starting on_hand and every q > 0.
C5_Inversion ==
    (Quiescent /\ PaidThenReturned)
    => OnHand(stock, callLog[1].sku) = StartOnHand(callLog[1].sku)

\* C5 as amended: the same, provided the order_paid was not clamped at the floor:
\* the product allows backorders or the starting on_hand is at least q.
C5_InversionUnclamped ==
    (/\ Quiescent
     /\ PaidThenReturned
     /\ \/ Backorders(callLog[1].sku)
        \/ StartOnHand(callLog[1].sku) >= Abs(callLog[1].delta))
    => OnHand(stock, callLog[1].sku) = StartOnHand(callLog[1].sku)

\* an order within the stock of a SKU without backorders, then its refund, committed
C5_Witness ==
    /\ Quiescent
    /\ PaidThenReturned
    /\ ~Backorders(callLog[1].sku)
    /\ StartOnHand(callLog[1].sku) >= Abs(callLog[1].delta)
    /\ Cardinality(events) = 2

EventOf(c) ==
    [site_id |-> c.site_id, order_id |-> c.order_id, line_item_id |-> c.line_item_id,
     sku |-> c.sku, delta |-> c.delta, event_type |-> c.event_type]

\* C6 (the key is the 4-tuple): of two apply_delta calls, if they differ in one of
\* site_id, order_id, line_item_id, event_type both are applied (was_new = true);
\* if they agree in all four, whatever their sku and delta, the first is applied,
\* the second is not, and the ledger ends with the one event of the first.
C6_KeyIsFourTuple ==
    Len(callLog) = 2
    => IF Key(callLog[1]) # Key(callLog[2])
       THEN callLog[1].was_new /\ callLog[2].was_new
       ELSE /\ callLog[1].was_new
            /\ ~callLog[2].was_new
            /\ Quiescent => events = {EventOf(callLog[1])}

Last(seq) == seq[Len(seq)]

\* the on_hand apply_delta is about to add its delta to
SelectedOnHand(h) ==
    IF stock_row[h] = {} THEN 0 ELSE (CHOOSE o \in stock_row[h] : TRUE).on_hand

\* C7 (the floor is a clamp, not a rejection): when on_hand + delta < 0 and the
\* product has backorders = false, apply_delta does not fail: the event stays
\* recorded, on_hand is written as 0 and the call returns (true, 0).
C7_ClampNotRejection ==
    [][\A h \in handlers :
          (/\ pc[h] = "update_on_hand"
           /\ pc'[h] # "update_on_hand"
           /\ SelectedOnHand(h) + cur[h].delta < 0
           /\ ~Backorders(cur[h].sku))
          => /\ pc'[h] = "bulk"
             /\ Last(results'[h]) = [sku |-> cur[h].sku, was_new |-> TRUE, on_hand |-> 0]
             /\ NewEvent(req[h], cur[h]) \in txEvents'[h]
             /\ OnHand(SessionStock(h)', cur[h].sku) = 0]_vars

\* an order of 2 against a stock of 1 has just returned (true, 0)
C7_Witness ==
    \E h \in handlers :
        /\ pc[h] = "bulk"
        /\ Len(callLog) = 1
        /\ callLog[1].sku = "A"
        /\ StartOnHand("A") > 0
        /\ StartOnHand("A") + callLog[1].delta < 0
        /\ results[h] = <<[sku |-> "A", was_new |-> TRUE, on_hand |-> 0]>>
        /\ txEvents[h] = {EventOf(callLog[1])}
        /\ OnHand(SessionStock(h), "A") = 0

\* C8 (a duplicate delivery is a no-op): the call that finds its key already there
\* returns (false, v) with v the current on_hand of the SKU, and changes neither
\* the stock rows nor the event table as its session sees them.
C8_DuplicateIsNoOp ==
    [][\A h \in handlers :
          /\ (pc[h] = "insert_event" /\ pc'[h] = "duplicate")
             => /\ SessionStock(h)' = SessionStock(h)
                /\ ViewEvents(h)' = ViewEvents(h)
          /\ (pc[h] = "duplicate" /\ pc'[h] = "bulk")
             => /\ SessionStock(h)' = SessionStock(h)
                /\ ViewEvents(h)' = ViewEvents(h)
                /\ Last(results'[h]) =
                      [sku |-> cur[h].sku, was_new |-> FALSE,
                       on_hand |-> IF HasRow(SessionStock(h), cur[h].sku)
                                   THEN OnHand(SessionStock(h), cur[h].sku) ELSE 0]]_vars

Seeded(sku) == HasRow(seed, sku)

\* C9 (unknown SKU): the first apply_delta for a SKU the ledger does not know
\* returns (true, 0) for a negative delta and (true, d) for a positive delta d; the
\* Product it created has name = sku and backorders = false, and the Stock row it
\* created holds the returned on_hand and reserved = 0.
C9_UnknownSku ==
    /\ \A p \in AllProducts :
          ~Seeded(p.sku) => p = [sku |-> p.sku, name |-> p.sku, backorders |-> FALSE]
    /\ (callLog # <<>> /\ ~Seeded(callLog[1].sku))
       => /\ callLog[1].was_new
          /\ callLog[1].on_hand =
                IF callLog[1].delta < 0 THEN 0 ELSE callLog[1].delta
    /\ \A h \in handlers :
          (/\ Len(callLog) = 1
           /\ ~Seeded(callLog[1].sku)
           /\ pc[h] = "bulk"
           /\ results[h] # <<>>)
          => /\ HasRow(ViewProducts(h), callLog[1].sku)
             /\ Get(SessionStock(h), callLog[1].sku) =
                   {[sku |-> callLog[1].sku, on_hand |-> callLog[1].on_hand,
                     reserved |-> 0]}

\* an order for the unknown SKU has been applied and committed: (true, 0)
C9_Witness ==
    /\ Quiescent
    /\ Len(callLog) = 1
    /\ callLog[1].sku = "U"
    /\ callLog[1].delta < 0
    /\ callLog[1].was_new
    /\ callLog[1].on_hand = 0
    /\ products = seedProducts \cup {[sku |-> "U", name |-> "U", backorders |-> FALSE]}
    /\ stock = seed \cup {[sku |-> "U", on_hand |-> 0, reserved |-> 0]}

\* two events of different keys for one SKU, both applied, none clamped
TwoUnclampedEvents ==
    /\ Len(callLog) = 2
    /\ callLog[1].was_new /\ callLog[2].was_new
    /\ callLog[1].sku = callLog[2].sku
    /\ Key(callLog[1]) # Key(callLog[2])
    /\ \/ Backorders(callLog[1].sku)
       \/ /\ StartOnHand(callLog[1].sku) + callLog[1].delta >= 0
          /\ StartOnHand(callLog[1].sku) + callLog[2].delta >= 0
          /\ StartOnHand(callLog[1].sku) + callLog[1].delta + callLog[2].delta >= 0

\* C10 (no lost update): when two handlers apply events of different keys to one
\* SKU, none clamped, the committed on_hand is the starting value plus both deltas,
\* however their steps interleave.
C10_NoLostUpdate ==
    (Quiescent /\ TwoUnclampedEvents)
    => OnHand(stock, callLog[1].sku) =
          StartOnHand(callLog[1].sku) + callLog[1].delta + callLog[2].delta

\* both events are committed, and the second handler was inside apply_delta for
\* the SKU when the first returned
C10_Witness ==
    /\ Quiescent
    /\ TwoUnclampedEvents
    /\ callLog[1].overlap
    /\ events = {EventOf(callLog[1]), EventOf(callLog[2])}

\* C11 (204 means committed): for every request answered 204, the committed ledger
\* holds an InventoryEvent for the key of each of its line items, and a Stock row
\* for the event's SKU.
C11_AnsweredMeansCommitted ==
    \A i \in DOMAIN answered :
        \A k \in answered[i] :
            \E e \in events : Key(e) = k /\ HasRow(stock, e.sku)

\* how many results of rs are new and carry job j
NewResults(rs, j) ==
    Cardinality({i \in DOMAIN rs : rs[i].was_new /\ Job(rs[i]) = j})

\* how many jobs of q from position n on are j
JobsFrom(q, n, j) == Cardinality({i \in n..Len(q) : q[i] = j})

\* C12 (one job per new result): the handler's loop over the results leaves the
\* jobs already queued as they were and adds, for every (sku, new_on_hand), as
\* many jobs as there are results (sku, was_new = true, new_on_hand); a result with
\* was_new = false adds none.
C12_OneJobPerNewResult ==
    [][\A h \in handlers :
          (pc[h] = "bulk" /\ pc'[h] = "commit")
          => /\ SubSeq(queue', 1, Len(queue)) = queue
             /\ \A sku \in SKUs, v \in -(MaxCalls * MaxQty)..(MaxStart + MaxCalls * MaxQty) :
                   LET j == [sku |-> sku, stock_quantity |-> v]
                   IN  JobsFrom(queue', Len(queue) + 1, j) = NewResults(results[h], j)
             /\ \A i \in (Len(queue) + 1)..Len(queue') :
                   NewResults(results[h], queue'[i]) > 0]_vars

\* a webhook was applied and committed, then delivered again and answered: the
\* queue holds the one job of the first delivery
C12_Witness ==
    /\ Quiescent
    /\ Len(callLog) = 2
    /\ SameArguments(callLog[1], callLog[2])
    /\ callLog[1].was_new
    /\ ~callLog[2].was_new
    /\ Len(answered) = 2
    /\ queue = <<[sku |-> callLog[1].sku, stock_quantity |-> callLog[1].on_hand]>>

\* C13 (enqueue after commit): every job in the queue carries the on_hand of an
\* applied event that is committed; a transaction that is still open, or that was
\* rolled back, has no job in the queue.
C13_EnqueuedAfterCommit ==
    \A i \in DOMAIN queue :
        \E n \in DOMAIN callLog :
            /\ callLog[n].was_new
            /\ queue[i] = [sku |-> callLog[n].sku, stock_quantity |-> callLog[n].on_hand]
            /\ EventOf(callLog[n]) \in events

\* two requests of one line item each, of different keys, have changed one SKU
TwoRequestsOneSku ==
    /\ Len(callLog) = 2
    /\ callLog[1].was_new /\ callLog[2].was_new
    /\ callLog[1].sku = callLog[2].sku
    /\ Len(answered) = 2

\* C14 (jobs are queued in commit order): when two requests have changed the same
\* SKU, the job of the request that committed first is queued first, and the last
\* job queued carries the committed on_hand of the SKU.
C14_QueueFollowsCommits ==
    (Quiescent /\ TwoRequestsOneSku)
    => /\ Len(queue) = 2
       /\ \A i \in 1..2 :
             \E n \in 1..2 :
                 /\ Key(callLog[n]) \in answered[i]
                 /\ queue[i] = [sku |-> callLog[n].sku,
                                stock_quantity |-> callLog[n].on_hand]
       /\ Last(queue).stock_quantity = OnHand(stock, callLog[1].sku)

\* both requests are answered, and the second handler was inside apply_delta for
\* the SKU when the first returned
C14_Witness ==
    /\ Quiescent
    /\ TwoRequestsOneSku
    /\ callLog[1].overlap
    /\ Len(queue) = 2
    /\ queue[1] # queue[2]

\* enqueue calls made so far
EnqueueCalls == Len(accepted) + dropped

\* C15 (queue bound): the queue never holds more than 10 000 jobs, and an enqueue
\* call on a full queue drops its job: the jobs queued and their order are as
\* before, and the worker is where it was.
C15_QueueBound ==
    [][/\ Len(queue') <= 10000
       /\ (EnqueueCalls' > EnqueueCalls /\ Len(queue) = 10000)
          => /\ queue' = queue
             /\ accepted' = accepted
             /\ dropped' = dropped + 1
             /\ wpc' = wpc /\ job' = job]_vars

\* the queue is full, one job has been dropped and one was accepted before it
C15_Witness ==
    /\ Len(queue) = QueueMaxSize
    /\ dropped = 1
    /\ Len(accepted) = QueueMaxSize
    /\ taken = 0

\* the job has ended at the site: sku has stock_quantity there
RemoteHolds(site_id, sku, stock_quantity) ==
    [site_id |-> site_id, sku |-> sku, stock_quantity |-> stock_quantity] \in remote

\* the writes issued for the job the worker has taken, at the sites ended and at
\* the site it is at
JobWrites ==
    {w \in UNION {{o.writes[i] : i \in DOMAIN o.writes} :
                    o \in {outcomes[n] : n \in DOMAIN outcomes}} : TRUE}
       \cup {writes[i] : i \in DOMAIN writes}

\* C16 (FIFO per SKU): the worker takes the jobs in the order they were queued and
\* one at a time: every write issued since it took a job carries that job's sku
\* and stock_quantity (no write of a later job before the job is finished at every
\* site), and at every site where the job's write succeeded the storefront holds
\* the job's stock_quantity.
C16_FifoPerSku ==
    /\ taken > 0 => job = accepted[taken]
    /\ \A w \in JobWrites :
          w.sku = job.sku /\ w.stock_quantity = job.stock_quantity
    /\ \A n \in DOMAIN outcomes :
          outcomes[n].result = "ok"
          => RemoteHolds(outcomes[n].site_id, job.sku, job.stock_quantity)

\* two jobs for one sku with different quantities are finished: the second was
\* written at the first site and dead-lettered at the second, which still holds
\* the quantity of the first
C16_Witness ==
    /\ taken = 2
    /\ wpc = "get"
    /\ accepted[1].sku = accepted[2].sku
    /\ accepted[1].stock_quantity # accepted[2].stock_quantity
    /\ Len(outcomes) = 2
    /\ outcomes[1].result = "ok"
    /\ outcomes[2].result = "dead"
    /\ RemoteHolds(outcomes[1].site_id, job.sku, accepted[2].stock_quantity)
    /\ RemoteHolds(outcomes[2].site_id, job.sku, accepted[1].stock_quantity)

\* the delays of the default settings
DefaultDelays == <<2, 4, 8, 16>>

\* C17 (bounded retry): at a site whose every write failed the worker made exactly
\* max_retries (5) attempts and slept 2, 4, 8, 16 s between them, not after the
\* last; at a site that succeeded it stopped at the first success, having slept
\* after each failed attempt before it.
C17_BoundedRetry ==
    /\ Len(writes) <= 5
    /\ \A n \in DOMAIN outcomes :
          LET o == outcomes[n]
          IN  /\ o.result = "dead"
                 => /\ Len(o.writes) = 5
                    /\ \A i \in DOMAIN o.writes : ~o.writes[i].ok
                    /\ o.sleeps = DefaultDelays
              /\ o.result = "ok"
                 => /\ Len(o.writes) \in 1..5
                    /\ \A i \in DOMAIN o.writes : o.writes[i].ok <=> i = Len(o.writes)
                    /\ o.sleeps = SubSeq(DefaultDelays, 1, Len(o.writes) - 1)

\* one site was dead-lettered after 5 writes, one succeeded at the third attempt
C17_Witness ==
    /\ Len(outcomes) = 2
    /\ outcomes[1].result = "dead"
    /\ Len(outcomes[1].writes) = 5
    /\ outcomes[1].sleeps = <<2, 4, 8, 16>>
    /\ outcomes[2].result = "ok"
    /\ Len(outcomes[2].writes) = 3
    /\ outcomes[2].sleeps = <<2, 4>>

\* C18 (dead-letter deduplication): the PropagationFailure table holds at most one
\* row for each (site_id, sku).
C18_OneFailureRow ==
    \A f, g \in failures :
        (f.site_id = g.site_id /\ f.sku = g.sku) => f = g

\* two different jobs for one sku were both dead-lettered at the first site: its
\* row is the one the first job inserted, updated by the second
C18_Witness ==
    /\ taken = 2
    /\ wpc = "get"
    /\ accepted[1] # accepted[2]
    /\ accepted[1].sku = accepted[2].sku
    /\ outcomes[1].result = "dead"
    /\ \E f \in failures :
          /\ f.site_id = outcomes[1].site_id
          /\ f.sku = job.sku
          /\ f.payload = accepted[1]
          /\ f.attempts = 5

\* C19 (a missing mapping is not retried): a site without a SiteSkuMap row for the
\* job's sku ends as satisfied with no storefront write, no backoff sleep and no
\* PropagationFailure row; the worker never writes to, sleeps for or records such
\* a site.
C19_MissingMappingSkipped ==
    /\ \A n \in DOMAIN outcomes :
          <<outcomes[n].site_id, job.sku>> \notin mapping
          => /\ outcomes[n].result = "skipped"
             /\ outcomes[n].writes = <<>>
             /\ outcomes[n].sleeps = <<>>
    /\ \A f \in failures : <<f.site_id, f.sku>> \in mapping
    /\ wpc \in {"write", "sleep", "record"}
       => <<ConfiguredSites[site], job.sku>> \in mapping

\* the first site has no mapping and was skipped, the second was written
C19_Witness ==
    /\ Len(outcomes) = 2
    /\ <<outcomes[1].site_id, job.sku>> \notin mapping
    /\ outcomes[1].result = "skipped"
    /\ outcomes[2].result = "ok"
    /\ failures = {}

HandledAllSites ==
    /\ Len(outcomes) = Len(ConfiguredSites)
    /\ \A n \in DOMAIN outcomes :
          /\ outcomes[n].site_id = ConfiguredSites[n]
          /\ outcomes[n].result \in {"ok", "skipped", "dead"}

\* C21 (the worker survives a job): every job taken from the queue is marked done
\* exactly once, the one in hand when its handling ends, whether _handle_job
\* returned or raised; after an exception the worker is back at _queue.get(), and
\* takes the next job when there is one.
C21_WorkerSurvives ==
    /\ Len(done) = IF wpc = "get" THEN taken ELSE taken - 1
    /\ \A i \in DOMAIN done : done[i].job = i
    /\ (done # <<>> /\ Last(done).raised /\ Len(done) = taken) => wpc = "get"
    /\ (wpc = "get" /\ queue # <<>> /\ taken < univ.jobs) => ENABLED WorkerGet

\* the handling of the first job raised, and the worker took and finished a second
C21_Witness ==
    /\ Len(done) = 2
    /\ done[1].raised
    /\ ~done[2].raised
    /\ wpc = "get"
    /\ HandledAllSites

\* the job taken last has ended at every configured site in exactly one of three
\* ways: a successful write, a skip for a missing mapping, a PropagationFailure row
EndedAtEverySite ==
    /\ Len(outcomes) = Len(ConfiguredSites)
    /\ \A n \in DOMAIN outcomes :
          LET o == outcomes[n]
              written == o.writes # <<>> /\ Last(o.writes).ok
              skipped == ~Mapped(o.site_id, job.sku) /\ o.writes = <<>>
              recorded == Existing(o.site_id, job.sku) # {}
          IN  /\ o.site_id = ConfiguredSites[n]
              /\ \/ o.result = "ok" /\ written /\ ~skipped
                 \/ o.result = "skipped" /\ skipped /\ ~written
                 \/ o.result = "dead" /\ recorded /\ ~written /\ ~skipped

\* C22 (every accepted job is eventually handled): every job accepted into the
\* queue is eventually taken and marked done, and a job that is marked done has
\* ended at every configured site in exactly one of: a successful write, a skip
\* for a missing mapping, a PropagationFailure row for (site, sku).
C22_EveryJobHandled ==
    /\ \A i \in 1..MaxJobs : (Len(accepted) >= i) ~> (Len(done) >= i)
    /\ []((wpc = "get" /\ taken > 0) => EndedAtEverySite)

\* the first half of C22 alone: an accepted job is eventually marked done
EventuallyDone ==
    \A i \in 1..MaxJobs : (Len(accepted) >= i) ~> (Len(done) >= i)

\* C23 (live site view): a site the job is written to was active in table sites at
\* some moment since the job was taken, and, when the job has been handled at all
\* sites, every mapped site that was active all the time since it was taken has
\* been written to.
C23_LiveSiteView ==
    taken > 0
    => /\ \A i \in DOMAIN writes : writes[i].site_id \in everActive
       /\ \A n \in DOMAIN outcomes :
             outcomes[n].writes # <<>> => outcomes[n].site_id \in everActive
       /\ (wpc = "get" /\ HandledAllSites)
          => \A s \in alwaysActive :
                Mapped(s, job.sku)
                => \E n \in DOMAIN outcomes :
                      outcomes[n].site_id = s /\ outcomes[n].writes # <<>>

\* C24 (graceful shutdown terminates): _shutdown returns by the drain only when
\* every job put on the queue has been marked done, by the timeout only while some
\* job is not, and once it waits it returns one way or the other.
C24_ShutdownTerminates ==
    /\ [][shutdown'.state = "drained" /\ shutdown.state # "drained"
            => Len(done') = Len(accepted') /\ wpc' = "get" /\ queue' = <<>>]_vars
    /\ [][shutdown'.state = "timed_out" /\ shutdown.state # "timed_out"
            => Len(done) < Len(accepted)]_vars
    /\ (shutdown.state = "draining") ~> (shutdown.state \in {"drained", "timed_out"})

\* the shutdown began with one job in hand and one waiting, and returned when both
\* were marked done
C24_Witness ==
    /\ shutdown.state = "drained"
    /\ shutdown.unfinished = 2
    /\ Len(done) = 2

\* C25 (a failure row is never cleared): no step of the worker deletes a
\* PropagationFailure row, and only _record_failure changes one: a job that
\* succeeds or is skipped at the site leaves the row as it was.
C25_FailureNeverCleared ==
    [][/\ \A f \in failures :
             \E g \in failures' :
                 g.id = f.id /\ g.site_id = f.site_id /\ g.sku = f.sku
       /\ wpc # "record" => failures' = failures]_vars

\* the first job was dead-lettered at the first site; a second, different job has
\* succeeded there, and the row is the one the first job left
C25_Witness ==
    /\ taken = 2
    /\ accepted[1] # accepted[2]
    /\ outcomes # <<>>
    /\ outcomes[1].result = "ok"
    /\ RemoteHolds(outcomes[1].site_id, job.sku, job.stock_quantity)
    /\ \E f \in failures :
          /\ f.site_id = outcomes[1].site_id
          /\ f.sku = job.sku
          /\ f.payload = accepted[1]
          /\ f.attempts = PropagationMaxRetries

\* what a request can change: the ledger, the open transactions and the queue
Effects ==
    <<products, stock, events, txProducts, txStock, txEvents, locks, modified,
      queue, accepted, dropped, answered>>

\* C26 (a database error undoes the request): when an exception other than the
\* caught IntegrityError leaves apply_delta, the step commits nothing (products,
\* stock and events are as before), the transaction of the request is empty and
\* holds no lock, nothing is enqueued and the request is not answered 204.
C26_ErrorRollsBack ==
    [][\A h \in handlers :
          (pc[h] \in InCall /\ pc'[h] = "idle")
          => /\ UNCHANGED <<products, stock, events, queue, accepted, answered>>
             /\ txProducts'[h] = {} /\ txStock'[h] = {} /\ txEvents'[h] = {}
             /\ modified'[h] = {} /\ locks'[h] = {}
             /\ results'[h] = <<>>]_vars

\* the first line item of a request was applied, the second ran into a database
\* error: the ledger is as seeded and the queue is empty
C26_Witness ==
    /\ delivery.code = 500
    /\ delivery.n = 1
    /\ Len(callLog) = 1
    /\ callLog[1].was_new
    /\ events = {}
    /\ stock = seed
    /\ queue = <<>>
    /\ answered = <<>>
    /\ \A h \in handlers : pc[h] = "idle" /\ txEvents[h] = {}

\* C27 (bulk_apply_deltas keeps the order): the calls of a request are made in the
\* order of its line items, each with delta = -qty for order_paid and +qty for
\* refund and cancel; the results hold one (sku, was_new, new_on_hand) per line
\* item handled, in the same order; no event has delta 0.
C27_BulkInOrder ==
    /\ \A h \in handlers :
          LET n == Len(results[h])
              off == Len(callLog) - n
          IN  /\ Len(line_items[h]) = IF pc[h] \in InCall THEN n + 1 ELSE n
              /\ off >= 0
              /\ \A i \in 1..n :
                    LET item == line_items[h][i]
                        call == callLog[off + i]
                    IN  /\ call.line_item_id = item.line_item_id
                        /\ call.sku = item.sku
                        /\ call.event_type = req[h].event_type
                        /\ call.delta = IF req[h].event_type = "order_paid"
                                        THEN 0 - item.qty ELSE item.qty
                        /\ results[h][i] =
                              [sku |-> item.sku, was_new |-> call.was_new,
                               on_hand |-> call.on_hand]
              /\ pc[h] \in InCall
                 => /\ cur[h].line_item_id = line_items[h][n + 1].line_item_id
                    /\ cur[h].sku = line_items[h][n + 1].sku
                    /\ cur[h].delta = IF req[h].event_type = "order_paid"
                                      THEN 0 - line_items[h][n + 1].qty
                                      ELSE line_items[h][n + 1].qty
    /\ \A e \in events \cup UNION {txEvents[h] : h \in handlers} : e.delta # 0

\* a refund of quantity 2 was applied; bulk_apply_deltas has then returned for an
\* order_paid of two line items of quantities 1 and 2, the first new and the
\* second a duplicate
C27_Witness ==
    \E h \in handlers :
        /\ pc[h] = "commit"
        /\ Len(callLog) = 3
        /\ callLog[1].event_type \in {"refund", "cancel"}
        /\ callLog[1].delta = 2
        /\ req[h].event_type = "order_paid"
        /\ Len(results[h]) = 2
        /\ line_items[h][1].qty = 1
        /\ line_items[h][2].qty = 2
        /\ results[h][1].was_new
        /\ ~results[h][2].was_new

\* the status differs from s whatever the case of the letters
DiffersIgnoringCase(status, s) ==
    ~\E class \in {{"processing", "Processing"}, {"pending"}} :
         status \in class /\ s \in class

\* the delivery the step has answered or passed on
Delivered == delivery'.n # delivery.n

\* C28 (a wrong status is ignored): an authenticated order_paid webhook whose
\* status differs, whatever the case, from decrement_status is answered 204 by the
\* step that receives it, and that step changes nothing: no row, no open
\* transaction, no job, and the handler is idle as before.
C28_WrongStatusIgnored ==
    [][(/\ Delivered
        /\ delivery'.event_type = "order_paid"
        /\ VerifyWebhook(Headers(delivery'.credentials)) = 200
        /\ DiffersIgnoringCase(delivery'.status, settings.decrement_status))
       => /\ delivery'.code = 204
          /\ UNCHANGED <<Effects, pc, req>>]_vars

\* an order was paid and committed; a second order_paid with status pending was
\* then answered 204
C28_Witness ==
    /\ delivery.n = 2
    /\ delivery.event_type = "order_paid"
    /\ delivery.status = "pending"
    /\ delivery.code = 204
    /\ events # {}
    /\ Len(accepted) = 1

\* shared-secret mode: a secret and no bearer token
SharedSecretMode ==
    settings.webhook_bearer_token = "" /\ settings.webhook_shared_secret # ""

\* credentials whose signature header is missing, or decodes to something other
\* than the HMAC of the body under the secret
BadSignature == {"none", "bearer", "other_key", "tampered"}

\* C29 (a bad signature is answered 401): in shared-secret mode a webhook whose
\* signature header is missing, or is the signature of another body or under
\* another key, is answered 401 by the step that receives it; that step starts no
\* handler and changes no row, no open transaction and no queue.
C29_BadSignature401 ==
    [][(Delivered /\ SharedSecretMode /\ delivery'.credentials \in BadSignature)
       => /\ delivery'.code = 401
          /\ UNCHANGED <<Effects, pc, req>>]_vars

\* an order was paid and committed; a second webhook signed with another key was
\* then answered 401
C29_Witness ==
    /\ SharedSecretMode
    /\ delivery.n = 2
    /\ delivery.credentials = "other_key"
    /\ delivery.code = 401
    /\ events # {}
    /\ Len(accepted) = 1

\* the GET of the page the walk is at fails, and the step is the refresh's
PageFetchFails ==
    refresh.pc = "fetch" /\ refresh.page = refresh.fail_at /\ refresh' # refresh

\* C30 (a failed page fetch writes nothing): when the GET of a product page fails,
\* on the first page or on a later one, refresh_site_mappings returns inserted = 0
\* and exactly one error in that step; tables products, stock and site_sku_map are
\* as before, and the session holds no write for its caller to commit.
C30_FetchFailureWritesNothing ==
    [][PageFetchFails
       => /\ refresh'.pc = "idle"
          /\ refresh_result' =
                [site_id |-> refresh.site_id, inserted |-> 0, errors |-> 1]
          /\ UNCHANGED <<products, stock, site_sku_map, mapping>>
          /\ refresh'.session = EmptySession]_vars

\* a first refresh has mapped two SKUs at s1; the second, of a catalogue of more
\* than one page, failed on its second page
C30_Witness ==
    /\ refresh.pc = "idle"
    /\ refresh.n = 2
    /\ refresh.catalogue = PerPage + 1
    /\ refresh.fail_at = 2
    /\ refresh.page = 2
    /\ refresh_result = [site_id |-> "s2", inserted |-> 0, errors |-> 1]
    /\ MapRow("s1", "U", 2, 21) \in site_sku_map
    /\ MapRow("s1", "A", 1, 0) \in site_sku_map
    /\ ~\E r \in site_sku_map : r.site_id = "s2"

\* the PropagationFailure rows of the pair the worker is at, in a table
RowsOfPair(table) ==
    {f \in table : f.site_id = ConfiguredSites[site] /\ f.sku = job.sku}

\* the step is _record_failure, from its SELECT to the commit of its session
RecordFailureRuns == wpc = "record" /\ <<site, wpc>>' # <<site, wpc>>

\* C31 (the failure row is upserted in place): when _record_failure runs for a
\* pair that has a row, the row keeps its id, created_at and payload and takes the
\* error and attempts of the job and a later last_tried; when the pair has no row,
\* one is inserted with the job as payload and created_at = last_tried; the rows
\* of the other pairs are as before.
C31_FailureUpsertedInPlace ==
    [][RecordFailureRuns
       => /\ failures' \ RowsOfPair(failures') = failures \ RowsOfPair(failures)
          /\ Cardinality(RowsOfPair(failures')) = 1
          /\ \A g \in RowsOfPair(failures') :
                /\ g.error = last_error
                /\ g.attempts = settings.propagation_max_retries
                /\ \A f \in failures : f.last_tried < g.last_tried
                /\ IF RowsOfPair(failures) # {}
                   THEN \A f \in RowsOfPair(failures) :
                           /\ g.id = f.id
                           /\ g.created_at = f.created_at
                           /\ g.payload = f.payload
                   ELSE /\ g.created_at = g.last_tried
                        /\ g.payload = [sku |-> job.sku,
                                        stock_quantity |-> job.stock_quantity]]_vars

\* two different jobs were dead-lettered at the first site with different errors:
\* its row has the payload and the created_at of the first and the error and the
\* last_tried of the second
C31_Witness ==
    /\ taken = 2
    /\ accepted[1] # accepted[2]
    /\ outcomes # <<>>
    /\ outcomes[1].result = "dead"
    /\ \E f \in failures :
          /\ f.site_id = ConfiguredSites[1]
          /\ f.payload = accepted[1]
          /\ f.payload # job
          /\ f.error = "exception"
          /\ f.created_at < f.last_tried
    /\ \E f \in failures :
          /\ f.site_id = ConfiguredSites[2]
          /\ f.payload = accepted[1]
          /\ f.created_at = f.last_tried

\* C32 (attempts counts the writes): the row _record_failure writes has
\* attempts >= 1, and attempts is the number of storefront writes made for the job
\* at the site.
C32_AttemptsCountWrites ==
    [][RecordFailureRuns
       => \A g \in RowsOfPair(failures') :
             g.attempts >= 1 /\ g.attempts = Len(writes)]_vars

\* the SiteSkuMap row of a storefront write
RowOfWrite(w) ==
    CHOOSE m \in site_sku_map : m.site_id = w.site_id /\ m.sku = w.sku

\* the storefront writes made for the job so far, at the sites handled and at the
\* site the worker is at
WritesOfJob ==
    UNION {{o.writes[i] : i \in DOMAIN o.writes} :
              o \in {outcomes[n] : n \in DOMAIN outcomes}}
       \cup {writes[i] : i \in DOMAIN writes}

\* C34 (the write follows the mapping): every storefront write for the job is
\* set_variation_stock(product_id, variation_id, qty) when the mapping of the site
\* has a variation_id and set_product_stock(product_id, qty) when it has none,
\* with the product_id of the mapping and the stock_quantity of the job.
C34_WriteFollowsMapping ==
    \A w \in WritesOfJob :
        /\ w.sku = job.sku
        /\ w.stock_quantity = job.stock_quantity
        /\ w.product_id = RowOfWrite(w).product_id
        /\ IF RowOfWrite(w).variation_id # 0
           THEN w.op = "set_variation_stock"
                /\ w.variation_id = RowOfWrite(w).variation_id
           ELSE w.op = "set_product_stock"

\* a job of quantity 1 was written to a variation at the first site and to a
\* simple product at the second
C34_Witness ==
    /\ wpc = "get"
    /\ taken = 1
    /\ Len(outcomes) = 2
    /\ outcomes[1].result = "ok"
    /\ outcomes[2].result = "ok"
    /\ job.stock_quantity = 1
    /\ outcomes[1].writes[1].op = "set_variation_stock"
    /\ outcomes[1].writes[1].variation_id = 7
    /\ outcomes[2].writes[1].op = "set_product_stock"
    /\ outcomes[2].writes[1].product_id = 4

\* the floor of a SKU without backorders
AtLeastZero(n) == IF n < 0 THEN 0 ELSE n

\* two calls for one SKU the ledger did not know, with different keys, the second
\* of them inside apply_delta when the first returned, are all the calls made and
\* their requests are answered
TwoConcurrentCalls ==
    /\ Quiescent
    /\ Len(callLog) = 2
    /\ callLog[1].overlap
    /\ callLog[1].sku = callLog[2].sku
    /\ ~Seeded(callLog[1].sku)
    /\ Key(callLog[1]) # Key(callLog[2])

\* C33 (concurrent first use of a SKU): no apply_delta call ends with an error;
\* after two concurrent calls with different keys for a SKU the ledger did not
\* know, both returned was_new, there is one Product and one Stock row of the SKU,
\* both events are committed, and on_hand is what the two deltas give one after
\* the other from 0.
C33_ConcurrentUnknownSku ==
    /\ [][\A h \in handlers : pc[h] \in InCall => pc'[h] # "idle"]_vars
    /\ [](TwoConcurrentCalls
          => LET sku == callLog[1].sku
             IN  /\ callLog[1].was_new /\ callLog[2].was_new
                 /\ Cardinality({p \in products : p.sku = sku}) = 1
                 /\ Cardinality({r \in stock : r.sku = sku}) = 1
                 /\ \A i \in 1..2 :
                       \E e \in events :
                          /\ Key(e) = Key(callLog[i])
                          /\ e.sku = sku
                          /\ e.delta = callLog[i].delta
                 /\ Cardinality(events) = 2
                 /\ OnHand(stock, sku) =
                       AtLeastZero(AtLeastZero(callLog[1].delta) + callLog[2].delta)
                 /\ callLog[2].on_hand = OnHand(stock, sku))

\* an order_paid and a refund of the unknown SKU ran concurrently; the order_paid
\* returned first, clamped at 0, and the refund brought on_hand to 1
C33_Witness ==
    /\ TwoConcurrentCalls
    /\ callLog[1].delta = -1
    /\ callLog[2].delta = 1
    /\ callLog[1].was_new /\ callLog[2].was_new
    /\ OnHand(stock, callLog[1].sku) = 1
    /\ Cardinality(events) = 2

\* session.commit() of refresh_site_mappings: the step that ends a walk
RefreshCommits == refresh.pc = "upsert" /\ refresh'.pc = "idle"

\* the rows of a record are in the tables after the step
Stored(rec, sku) ==
    /\ \E row \in site_sku_map' : row.site_id = refresh.site_id /\ row.sku = sku
    /\ \E p \in products' : p.sku = sku
    /\ \E r \in stock' : r.sku = sku

\* the simple products fetched that have a SKU
Walked ==
    {i \in DOMAIN refresh.fetched :
        /\ refresh.fetched[i].type = "simple"
        /\ Strip(refresh.fetched[i].sku) # ""}

\* the ids of the variations with a SKU of the variable products fetched, when
\* their variations can be fetched
WalkedVariations ==
    IF refresh.variations_fail THEN {}
    ELSE UNION {{StoreVariations(refresh.fetched[i].id)[k].id :
                    k \in {j \in DOMAIN StoreVariations(refresh.fetched[i].id) :
                              Strip(StoreVariations(refresh.fetched[i].id)[j].sku) # ""}} :
                i \in {j \in DOMAIN refresh.fetched :
                          refresh.fetched[j].type = "variable"}}

\* C35 (a failure does not abort the walk): when the walk that met a failure
\* commits, it reports one error per failure, every other record of the
\* catalogue, before the failure and after it, was upserted, and the rows of every
\* record it upserted are in the tables.
C35_FailuresDoNotAbort ==
    [][(RefreshCommits /\ refresh.errors >= 1)
       => /\ refresh_result'.errors = refresh.errors
          /\ \A id \in {refresh.fetched[i].id : i \in Walked} \cup WalkedVariations :
                id # refresh.upsert_fail
                => \E n \in DOMAIN refresh.upserted : refresh.upserted[n].id = id
          /\ \A n \in DOMAIN refresh.upserted :
                Stored(refresh.upserted[n], refresh.upserted[n].sku)]_vars

\* the last record the walk upserted for a SKU
LastRecord(sku) ==
    LET ns == {n \in DOMAIN refresh.upserted : refresh.upserted[n].sku = sku}
    IN  refresh.upserted[CHOOSE n \in ns : \A m \in ns : m <= n]

\* C36 (the last record of a SKU wins): when a walk commits, site_sku_map has
\* exactly one row for the site and each SKU the walk upserted, and the row holds
\* the product_id and the variation_id (or none) of the last record of that SKU.
C36_LastSeenWins ==
    [][RefreshCommits
       => \A n \in DOMAIN refresh.upserted :
             LET sku == refresh.upserted[n].sku
                 rows == {row \in site_sku_map' :
                             row.site_id = refresh.site_id /\ row.sku = sku}
             IN  rows = {MapRow(refresh.site_id, sku, LastRecord(sku).product_id,
                                LastRecord(sku).variation_id)}]_vars

\* C37 (SKUs are stored verbatim): when a walk that lost nothing to a rollback
\* commits, every record it upserted is stored under the SKU string the
\* storefront sent, and every simple product whose SKU string is not empty was
\* upserted unless its upsert failed.
C37_SkuVerbatim ==
    [][(RefreshCommits /\ ~refresh.rolled_back)
       => /\ \A n \in DOMAIN refresh.upserted :
                /\ refresh.upserted[n].sku = refresh.upserted[n].remote
                /\ Stored(refresh.upserted[n], refresh.upserted[n].remote)
          /\ \A i \in DOMAIN refresh.fetched :
                (/\ refresh.fetched[i].type = "simple"
                 /\ refresh.fetched[i].sku # ""
                 /\ refresh.fetched[i].id # refresh.upsert_fail)
                => \E n \in DOMAIN refresh.upserted :
                      refresh.upserted[n].id = refresh.fetched[i].id]_vars

\* C40 (the refresh leaves the ledger alone): no step of refresh_site_mappings
\* adds, changes or removes an InventoryEvent or changes a Stock row; a Product
\* that exists keeps its backorders flag; a Stock row it adds is of a SKU that had
\* none and has on_hand = 0 and reserved = 0; only the mappings of the site of the
\* refresh change.
C40_RefreshLeavesLedger ==
    [][refresh' # refresh
       => /\ events' = events
          /\ stock \subseteq stock'
          /\ \A r \in stock' \ stock :
                ~HasRow(stock, r.sku) /\ r.on_hand = 0 /\ r.reserved = 0
          /\ \A p \in products :
                \E q \in products' :
                   /\ q.sku = p.sku
                   /\ q.backorders = p.backorders
                   /\ \A o \in products' : o.sku = p.sku => o = q
          /\ \A row \in site_sku_map :
                row.site_id # refresh.site_id => row \in site_sku_map'
          /\ \A row \in site_sku_map' \ site_sku_map :
                row.site_id = refresh.site_id]_vars

\* a refund had brought the unknown SKU "U" to on_hand 1; a refresh has then given
\* names to both products and mapped both SKUs, and the stock and the event are
\* as they were
C40_Witness ==
    /\ refresh.pc = "idle"
    /\ refresh.n = 1
    /\ Cardinality(events) = 1
    /\ OnHand(stock, "U") = 1
    /\ seed \subseteq stock
    /\ \E p \in products : p.sku = "U" /\ p.name = "Widget"
    /\ \E p \in products : p.sku = "A" /\ p.name = "A"
    /\ MapRow(refresh.site_id, "U", 2, 21) \in site_sku_map
    /\ refresh_result.inserted = 2

\* the last apply_delta call for the sku that returned a new event
LastNew(sku) ==
    LET ns == {n \in DOMAIN callLog : callLog[n].sku = sku /\ callLog[n].was_new}
    IN  callLog[CHOOSE n \in ns : \A m \in ns : m <= n]

\* C38 (event and stock mutation are atomic): committed events are never changed
\* or removed; every event a step commits was returned as new by apply_delta and
\* the same step commits the on_hand that call (or a later call of the same
\* transaction for the SKU) wrote; and a step that commits a Stock row commits an
\* event of its SKU.
C38_EventAndStockAtomic ==
    [][/\ events \subseteq events'
       /\ \A e \in events' \ events :
             /\ \E n \in DOMAIN callLog :
                   /\ callLog[n].was_new
                   /\ callLog[n].sku = e.sku
                   /\ <<callLog[n].site_id, callLog[n].order_id,
                        callLog[n].line_item_id, callLog[n].event_type>> = Key(e)
             /\ \E r \in stock' :
                   r.sku = e.sku /\ r.on_hand = LastNew(e.sku).on_hand
       /\ \A r \in stock' \ stock : \E e \in events' \ events : e.sku = r.sku]_vars

\* an event is committed with its on_hand write, and a call that returned a new
\* event and was rolled back has left neither an event nor a stock write
C38_Witness ==
    /\ \A h \in handlers : pc[h] = "idle"
    /\ Cardinality(events) = 1
    /\ stock # seed
    /\ \E n \in DOMAIN callLog :
          /\ callLog[n].was_new
          /\ \A e \in events : Key(e) # Key(callLog[n])

\* the webhook intake is quiescent, the queue has drained and the worker has
\* finished every job, no job was dropped and every site write succeeded
Drained ==
    /\ Quiescent
    /\ queue = <<>>
    /\ wpc = "get"
    /\ Len(done) = Len(accepted)
    /\ dropped = 0
    /\ failures = {}

\* C39 (convergence): once the intake is quiescent, the queue has drained,
\* nothing was dropped and every site write succeeded, every site holds, for
\* every SKU it has mapped and that had a job, the committed on_hand of the SKU.
C39_Convergence ==
    Drained
    => \A m \in mapping :
          (\E n \in DOMAIN accepted : accepted[n].sku = m[2])
          => /\ HasRow(stock, m[2])
             /\ RemoteHolds(m[1], m[2], OnHand(stock, m[2]))

=============================================================================
